---- MODULE Spec2Model ----
(***************************************************************************)
(* clockr: the interactive review state machines (tui.App, tui.BatchApp),  *)
(* the allocation editors, the submission pipeline and the streaming AI    *)
(* call with its idle watchdog.                                            *)
(*                                                                         *)
(* Text is a sequence of tokens: one token per key message (one rune, or   *)
(* the runes of one paste).  Times of day are minutes since midnight,      *)
(* interval times are minutes since the interval's start.                  *)
(***************************************************************************)
EXTENDS Integers, Sequences, FiniteSets, TLC

VARIABLES
    batch,        \* TRUE: the program runs tui.BatchApp, FALSE: tui.App
    state,        \* App.state / BatchApp.state
    loop,         \* the tea.Program loop: "running", "exited" (tea.Quit), "panic";
                  \* a run is followed up to the end of its loop
    result,       \* App.result
    errMsg,       \* App.errMsg
    input,        \* App.input: [text: the textarea's value, timeInfo: the label]
    suggestions,  \* App.suggestions: [ref, clarification, cursor]
    edit,         \* App.edit: [ref, cursor, field, editing, buf, filtered]; kept while
                  \* it can be read: the editor left behind by "done editing" is
                  \* replaced by newEditModel before it is shown again, and the text
                  \* and filter of a field are set anew when the next field is opened
    heap,         \* backing arrays of the allocation slices, one per parsed AI response
    calls,        \* the AI calls started so far (startAI / queryAI commands), each with
                  \* its channel, the readThinking commands blocked on it and the
                  \* thinkingMsg / thinkingDoneMsg on their way to Update
    thinkCh,      \* App.thinkCh: the call whose channel the App reads next
    thinkingText, \* App.thinkingText
    ticks,        \* tickCmd timers armed (each delivers one tickMsg)
    subs,         \* the submitAllocations commands started so far
    db,           \* rows of the local store, in insertion order
    ext,          \* entries created in the time-tracking service, in creation order
    startTime,    \* App.startTime
    endTime,      \* App.endTime
    nCommits,     \* field commits applied so far (bounds the run)
    ctrlC,        \* history: Update has handled a ctrl+c key message
    discarded,    \* history: the suggestions a retry has discarded (heap references)
    budget,       \* the commands and field commits a run is followed for
    typed,        \* the runes the user types while a text field has the focus
    \* the timing of one AI call, from the start of its command to its return
    now,          \* seconds since the command started
    callState,    \* "none": no call is timed; "running", "ok", "err"
    ctxErr,       \* ctx.Err(): "", "canceled" (the watchdog), "deadline"
    lastActivity, \* idleTimeout's lastActivity
    nextPoll,     \* when the watchdog's time.Sleep returns
    lastChunk,    \* history: when the last chunk arrived (the start, before the first)
    gapOver,      \* history: a chunk arrived after more than the idle limit of silence
    \* the program around the review loop
    cli,          \* one invocation of the claude CLI: its output and what is unwrapped
    sched,        \* scheduler.Scheduler.Run: its position and what it has re-sent
    view,         \* the listing batchSuggestionsModel.View rendered last
    req,          \* one request of the HTTP clients: its attempts and what it returns
    wd            \* one AI call followed past its return: the watchdog's goroutine,
                  \* the calls of cancel and the messages the command has returned

uiVars == <<batch, state, loop, result, errMsg, input, suggestions, edit, heap,
            calls, thinkCh, thinkingText, ticks, subs, db,
            ext, startTime, endTime, nCommits, ctrlC, discarded, budget, typed>>

timedVars == <<now, callState, ctxErr, lastActivity, nextPoll, lastChunk, gapOver>>

auxVars == <<cli, sched, view, wd, req>>

----------------------------------------------------------------------------
(* Bounds of the model                                                     *)

MaxEvents == 3     \* AI calls started, submissions started and fields committed in one run
MaxBuf == 1        \* tokens in a text field
MaxChunks == 1     \* chunks the backend emits in one call

----------------------------------------------------------------------------
(* Keys and text                                                           *)

TextKeys == {"a", "e", "r", "s", "5", "0", "A"}
\* the runes the user types into the capture field / into an editor field
TypedInput == {"5"}
TypedField == {"5"}
\* the runes typed into an editor field when the editor is studied on its own
TypedEdit == {"5", "0", "a", "A", "r"}
Keys == {"ctrl+c", "enter", "esc", "tab", "up", "down", "ctrl+u"} \cup TextKeys

Digit == [x \in {"0", "1", "2", "3", "4", "5", "6", "7", "8", "9"} |->
            CASE x = "0" -> 0 [] x = "1" -> 1 [] x = "2" -> 2 [] x = "3" -> 3
              [] x = "4" -> 4 [] x = "5" -> 5 [] x = "6" -> 6 [] x = "7" -> 7
              [] x = "8" -> 8 [] x = "9" -> 9]

DigitTok == <<"0", "1", "2", "3", "4", "5", "6", "7", "8", "9">>

RECURSIVE Itoa(_)
Itoa(n) == IF n < 10 THEN <<DigitTok[n + 1]>>
           ELSE Itoa(n \div 10) \o <<DigitTok[(n % 10) + 1]>>

RECURSIVE AtoiVal(_)
AtoiVal(s) == IF s = <<>> THEN 0
              ELSE 10 * AtoiVal(SubSeq(s, 1, Len(s) - 1)) + Digit[s[Len(s)]]

\* strconv.Atoi: err == nil exactly for a non-empty run of digits
AtoiOK(s) == s # <<>> /\ \A i \in 1..Len(s) : s[i] \in DOMAIN Digit

ToLower(s) == [i \in 1..Len(s) |->
                 CASE s[i] = "A" -> "a" [] s[i] = "S" -> "s" [] OTHER -> s[i]]

\* strings.Contains
Contains(s, sub) ==
    \E i \in 0..(Len(s) - Len(sub)) : SubSeq(s, i + 1, i + Len(sub)) = sub

RECURSIVE FilterSeq(_, _)
FilterSeq(ps, q) ==
    IF ps = <<>> THEN <<>>
    ELSE (IF Contains(ToLower(Head(ps).name), q) THEN <<Head(ps)>> ELSE <<>>)
         \o FilterSeq(Tail(ps), q)

Min(a, b) == IF a < b THEN a ELSE b

----------------------------------------------------------------------------
(* Data                                                                    *)

Projects == << [id |-> "p1", name |-> <<"A", "s">>, clientName |-> "c1"],
               [id |-> "p2", name |-> <<"e", "5">>, clientName |-> "c2"] >>

\* time.ParseInLocation("2006-01-02 15:04", date + " " + timeStr)
ValidDates == {"2026-01-05", "2026-01-06"}
ValidTimes == { <<"09:00">>, <<"10:00">> }
TimeOfDay(t) == IF t = <<"09:00">> THEN 540 ELSE 600
DayOffset(d) == IF d = "2026-01-05" THEN 0 ELSE 1440
ParseOK(date, t) == date \in ValidDates /\ t \in ValidTimes
parseBatchTime(date, t) == DayOffset(date) + TimeOfDay(t)

Alloc(pid, pname, cname, min, desc, date, st, en) ==
    [projectID |-> pid, projectName |-> pname, clientName |-> cname,
     minutes |-> min, description |-> desc, date |-> date,
     startTime |-> st, endTime |-> en]

A1 == Alloc("p1", <<"A", "s">>, "c1", 40, <<"d1">>, "", <<>>, <<>>)
A2 == Alloc("p2", <<"e", "5">>, "c2", 30, <<"d2">>, "", <<>>, <<>>)
B1 == Alloc("p1", <<"A", "s">>, "", 60, <<"d1">>, "2026-01-05", <<"09:00">>, <<"10:00">>)
B2 == Alloc("p2", <<"e", "5">>, "", 60, <<"d2">>, "2026-01-06", <<"09:00">>, <<"10:00">>)
B2bad == [B2 EXCEPT !.startTime = <<"9am">>]

\* what the backend may answer: a Suggestion / BatchSuggestion
Answers(b) ==
    IF b THEN { [allocations |-> <<>>, clarification |-> <<"q">>],
                [allocations |-> <<B1, B2>>, clarification |-> <<>>],
                [allocations |-> <<B1, B2bad>>, clarification |-> <<>>] }
    ELSE { [allocations |-> <<>>, clarification |-> <<"q">>],
           [allocations |-> <<A1, A2>>, clarification |-> <<>>] }

NumFields == IF batch THEN 5 ELSE 3
\* editProject, editMinutes, editDescription, batchEditStartTime, batchEditEndTime
FProject == 0
FMinutes == 1
FDescription == 2
FStartTime == 3
FEndTime == 4

NilResult == [set |-> FALSE, skipped |-> FALSE, entries |-> <<>>]
SkippedResult == [set |-> TRUE, skipped |-> TRUE, entries |-> <<>>]
EntriesResult(es) == [set |-> TRUE, skipped |-> FALSE, entries |-> es]

NoEdit == [ref |-> 0, cursor |-> 0, field |-> 0, editing |-> FALSE,
           buf |-> <<>>, filtered |-> <<>>]

----------------------------------------------------------------------------
(* State after NewApp / NewBatchApp                                        *)

\* the label NewApp formats from the interval ("15:04 - 15:04 (n min)")
TimeInfo(st, en) == <<st, en, en - st>>

\* newInputModel(timeInfo): an empty textarea under the label
newInputModel(timeInfo) == [text |-> <<>>, timeInfo |-> timeInfo]

UIInit ==
    /\ batch \in BOOLEAN
    /\ state = "input"
    /\ loop = "running"
    /\ result = NilResult
    /\ errMsg = <<>>
    /\ startTime = 0
    /\ endTime = 60
    /\ input = newInputModel(TimeInfo(startTime, endTime))
    /\ suggestions = [ref |-> 0, clarification |-> <<>>, cursor |-> 0]
    /\ edit = NoEdit
    /\ heap = <<>>
    /\ calls = <<>>
    /\ thinkCh = 0
    /\ thinkingText = <<>>
    /\ ticks = 0
    /\ subs = <<>>
    /\ db = <<>>
    /\ ext = <<>>
    /\ nCommits = 0
    /\ ctrlC = FALSE
    /\ discarded = {}

Allocations(ref) == IF ref = 0 THEN <<>> ELSE heap[ref]

\* the run may start one more command or commit one more field
MayStart == Len(calls) + Len(subs) + nCommits < budget
SuggAllocs == Allocations(suggestions.ref)

----------------------------------------------------------------------------
(* textarea / textinput                                                    *)

RECURSIVE LastNewline(_)
LastNewline(v) == IF v = <<>> THEN 0
                  ELSE IF v[Len(v)] = "\n" THEN Len(v)
                  ELSE LastNewline(SubSeq(v, 1, Len(v) - 1))

\* a key the widget inserts as text can be pressed only below the model's bound
CanType(v, k) == (k \in TextKeys) => Len(v) < MaxBuf

\* textarea.Update on a key: runes are inserted, enter splits the line,
\* ctrl+u deletes the current line's text before the cursor
TextareaUpdate(v, k) ==
    CASE k \in TextKeys -> Append(v, k)
      [] k = "enter"    -> Append(v, "\n")
      [] k = "ctrl+u"   -> SubSeq(v, 1, LastNewline(v))
      [] OTHER          -> v

\* textinput.Update on a key (single line)
TextinputUpdate(v, k) ==
    CASE k \in TextKeys -> Append(v, k)
      [] k = "ctrl+u"   -> <<>>
      [] OTHER          -> v

----------------------------------------------------------------------------
(* Commands                                                                *)

\* the slice the editor is constructed from: newEditModel keeps the caller's
\* slice, so the editor's elements are the caller's elements
newEditModel(ref) == [NoEdit EXCEPT !.ref = ref]

NewCall(nReaders) ==
    [phase |-> "running", emitted |-> 0, ch |-> <<>>, closed |-> FALSE,
     err |-> FALSE, ref |-> 0, clarification |-> <<>>,
     readers |-> nReaders, msgs |-> <<>>]

NewSub(ref) == [phase |-> IF Allocations(ref) = <<>> THEN "returned" ELSE "running",
                ref |-> ref, n |-> Len(Allocations(ref)),
                i |-> 1, entries |-> <<>>, err |-> <<>>,
                accepted |-> Allocations(ref)]

\* tea.Quit: the loop ends; a run is followed up to here (the messages the
\* program may still hand to Update before its QuitMsg are left out)
Quit == loop' = "exited"

\* a variant that starts the AI call on enter whatever the text field holds
updateInputAnyText(k) ==
    IF k = "enter"
    THEN /\ MayStart
         /\ state' = "loading"
         /\ calls' = Append(calls, NewCall(IF batch THEN 0 ELSE 1))
         /\ IF batch
            THEN UNCHANGED <<thinkingText, thinkCh, ticks>>
            ELSE /\ thinkingText' = <<>>
                 /\ thinkCh' = Len(calls) + 1
                 /\ ticks' = ticks + 1
         /\ UNCHANGED <<loop, result, errMsg, input, suggestions, edit, heap,
                        subs, nCommits>>
    ELSE /\ (k \in TextKeys) => Len(input.text) < MaxBuf
         /\ input' = [input EXCEPT !.text = TextareaUpdate(@, k)]
         /\ UNCHANGED <<state, loop, result, errMsg, suggestions, edit, heap,
                        calls, thinkCh, thinkingText, ticks, subs,
                        nCommits>>

\* App.updateInput / BatchApp.updateInput
updateInput(k) ==
    IF k = "enter" /\ input.text # <<>>
    THEN /\ MayStart
         /\ state' = "loading"
         /\ calls' = Append(calls, NewCall(IF batch THEN 0 ELSE 1))
         /\ IF batch
            THEN UNCHANGED <<thinkingText, thinkCh, ticks>>
            ELSE /\ thinkingText' = <<>>
                 /\ thinkCh' = Len(calls) + 1
                 /\ ticks' = ticks + 1
         /\ UNCHANGED <<loop, result, errMsg, input, suggestions, edit, heap,
                        subs, nCommits>>
    ELSE /\ (k \in TextKeys \/ k = "enter") => Len(input.text) < MaxBuf
         /\ input' = [input EXCEPT !.text = TextareaUpdate(@, k)]
         /\ UNCHANGED <<state, loop, result, errMsg, suggestions, edit, heap,
                        calls, thinkCh, thinkingText, ticks, subs,
                        nCommits>>

\* a variant in which esc leaves Loading for Input while the call runs
updateLoadingEsc(k) ==
    /\ state' = IF k = "esc" THEN "input" ELSE state
    /\ UNCHANGED <<loop, result, errMsg, input, suggestions, edit, heap,
                   calls, thinkCh, thinkingText, ticks, subs, nCommits>>

\* App.updateLoading / BatchApp.updateLoading: spinner and viewport only
updateLoading(k) ==
    UNCHANGED <<state, loop, result, errMsg, input, suggestions, edit, heap,
                calls, thinkCh, thinkingText, ticks, subs, nCommits>>

\* "up": the cursor moves up unless it is on the first allocation
CursorUp(cursor) == IF cursor > 0 THEN cursor - 1 ELSE cursor

\* a variant that stops one position past the last allocation
CursorDownPastEnd(cursor, n) == IF cursor < n THEN cursor + 1 ELSE cursor

\* "down": the cursor moves down unless it is on the last of the n allocations
CursorDown(cursor, n) == IF cursor < n - 1 THEN cursor + 1 ELSE cursor

\* App.updateSuggestion / BatchApp.updateSuggestion
updateSuggestion(k) ==
    CASE k = "a" ->
           /\ MayStart
           /\ subs' = Append(subs, NewSub(suggestions.ref))
           /\ UNCHANGED <<state, loop, result, errMsg, input, suggestions,
                          edit, heap, calls, thinkCh, thinkingText,
                          ticks, nCommits>>
      [] k = "e" ->
           /\ state' = "edit"
           /\ edit' = newEditModel(suggestions.ref)
           /\ UNCHANGED <<loop, result, errMsg, input, suggestions, heap,
                          calls, thinkCh, thinkingText, ticks, subs,
                          nCommits>>
      [] k = "r" ->
           /\ state' = "input"
           /\ input' = newInputModel(input.timeInfo)
           /\ UNCHANGED <<loop, result, errMsg, suggestions, edit, heap,
                          calls, thinkCh, thinkingText, ticks, subs,
                          nCommits>>
      [] k = "s" ->
           /\ result' = SkippedResult
           /\ Quit
           /\ UNCHANGED <<state, errMsg, input, suggestions, edit, heap,
                          calls, thinkCh, thinkingText, ticks, subs,
                          nCommits>>
      [] k \in {"up", "k"} ->
           /\ suggestions' = [suggestions EXCEPT !.cursor = CursorUp(@)]
           /\ UNCHANGED <<state, loop, result, errMsg, input, edit, heap,
                          calls, thinkCh, thinkingText, ticks, subs,
                          nCommits>>
      [] k \in {"down", "j"} ->
           /\ suggestions' =
                 [suggestions EXCEPT !.cursor = CursorDown(@, Len(SuggAllocs))]
           /\ UNCHANGED <<state, loop, result, errMsg, input, edit, heap,
                          calls, thinkCh, thinkingText, ticks, subs,
                          nCommits>>
      [] OTHER ->
           UNCHANGED <<state, loop, result, errMsg, input, suggestions, edit,
                       heap, calls, thinkCh, thinkingText, ticks,
                       subs, nCommits>>

----------------------------------------------------------------------------
(* The allocation editors: editModel / batchEditModel                      *)

\* the value a field's text input is seeded with (updateNavigating, "enter")
Seed(alloc, field) ==
    CASE field = FMinutes     -> Itoa(alloc.minutes)
      [] field = FDescription -> alloc.description
      [] field = FStartTime   -> alloc.startTime
      [] field = FEndTime     -> alloc.endTime
      [] OTHER                -> <<>>

\* a variant that takes any integer from zero up as minutes
EditValidFromZero(e) ==
    CASE e.field = FProject -> Len(e.filtered) > 0
      [] e.field = FMinutes -> AtoiOK(e.buf) /\ AtoiVal(e.buf) >= 0
      [] OTHER              -> e.buf # <<>>

\* whether applyEdit writes the field
EditValid(e) ==
    CASE e.field = FProject -> Len(e.filtered) > 0
      [] e.field = FMinutes -> AtoiOK(e.buf) /\ AtoiVal(e.buf) > 0
      [] OTHER              -> e.buf # <<>>

\* the allocation applyEdit leaves at the cursor
EditedAlloc(alloc, e) ==
    CASE e.field = FProject     -> [alloc EXCEPT !.projectID = e.filtered[1].id,
                                                 !.projectName = e.filtered[1].name]
      [] e.field = FMinutes     -> [alloc EXCEPT !.minutes = AtoiVal(e.buf)]
      [] e.field = FDescription -> [alloc EXCEPT !.description = e.buf]
      [] e.field = FStartTime   -> [alloc EXCEPT !.startTime = e.buf]
      [] OTHER                  -> [alloc EXCEPT !.endTime = e.buf]

\* a variant that writes the field into every allocation of the list
applyEditAll(allocs, e) ==
    IF EditValid(e)
    THEN [i \in DOMAIN allocs |-> EditedAlloc(allocs[i], e)]
    ELSE allocs

\* editModel.applyEdit / batchEditModel.applyEdit on the slice's backing array
applyEdit(allocs, e) ==
    IF EditValid(e)
    THEN [allocs EXCEPT ![e.cursor + 1] = EditedAlloc(@, e)]
    ELSE allocs

\* a variant that also moves the cursor back to the first allocation
CloseFieldTop(e) ==
    [e EXCEPT !.editing = FALSE, !.buf = <<>>, !.filtered = <<>>, !.cursor = 0]

\* m.editing = false; m.textInput.Blur()
CloseField(e) == [e EXCEPT !.editing = FALSE, !.buf = <<>>, !.filtered = <<>>]

\* updateNavigating
updateNavigating(k) ==
    CASE k \in {"up", "k"} ->
           /\ edit' = IF edit.cursor > 0 THEN [edit EXCEPT !.cursor = @ - 1] ELSE edit
           /\ UNCHANGED <<loop, heap, nCommits>>
      [] k \in {"down", "j"} ->
           /\ edit' = IF edit.cursor < Len(Allocations(edit.ref)) - 1
                      THEN [edit EXCEPT !.cursor = @ + 1] ELSE edit
           /\ UNCHANGED <<loop, heap, nCommits>>
      [] k = "tab" ->
           /\ edit' = [edit EXCEPT !.field = (@ + 1) % NumFields]
           /\ UNCHANGED <<loop, heap, nCommits>>
      [] k = "enter" ->
           IF (batch \/ edit.field # FProject)
              /\ edit.cursor >= Len(Allocations(edit.ref))
           THEN \* allocations[cursor]: index out of range
                /\ loop' = "panic"
                /\ UNCHANGED <<edit, heap, nCommits>>
           ELSE /\ edit' = [edit EXCEPT
                      !.editing = TRUE,
                      !.buf = IF edit.field = FProject THEN <<>>
                              ELSE Seed(Allocations(edit.ref)[edit.cursor + 1], edit.field),
                      !.filtered = IF edit.field = FProject THEN Projects ELSE @]
                /\ UNCHANGED <<loop, heap, nCommits>>
      [] OTHER -> UNCHANGED <<edit, loop, heap, nCommits>>

\* a variant that searches for the text as typed, without lowering it
filterProjectsAsTyped(v) == FilterSeq(Projects, v)

\* the project search of updateEditing: query := strings.ToLower(value), then
\* the projects whose lowered name contains the query
filterProjects(v) == FilterSeq(Projects, ToLower(v))

\* updateEditing
updateEditing(k) ==
    CASE k = "enter" ->
           IF ~EditValid(edit)
           THEN /\ edit' = CloseField(edit)
                /\ UNCHANGED <<loop, heap, nCommits>>
           ELSE IF edit.cursor >= Len(Allocations(edit.ref))
           THEN \* allocations[cursor]: index out of range
                /\ loop' = "panic"
                /\ UNCHANGED <<edit, heap, nCommits>>
           ELSE /\ MayStart
                /\ nCommits' = nCommits + 1
                /\ heap' = [heap EXCEPT ![edit.ref] = applyEdit(@, edit)]
                /\ edit' = CloseField(edit)
                /\ UNCHANGED loop
      [] k = "esc" ->
           /\ edit' = CloseField(edit)
           /\ UNCHANGED <<loop, heap, nCommits>>
      [] OTHER ->
           /\ CanType(edit.buf, k)
           /\ LET v == TextinputUpdate(edit.buf, k)
              IN  edit' = [edit EXCEPT
                      !.buf = v,
                      !.filtered = IF edit.field = FProject
                                   THEN filterProjects(v) ELSE @]
           /\ UNCHANGED <<loop, heap, nCommits>>

\* editModel.Update / batchEditModel.Update
editUpdate(k) == IF edit.editing THEN updateEditing(k) ELSE updateNavigating(k)

\* a variant that takes esc as "done editing" also while a field is edited
updateEditLeaveMidField(k) ==
    IF k = "esc"
    THEN /\ suggestions' = [suggestions EXCEPT !.ref = edit.ref]
         /\ state' = "suggestion"
         /\ edit' = NoEdit
         /\ UNCHANGED <<loop, result, errMsg, input, heap, calls,
                        thinkCh, thinkingText, ticks, subs, nCommits>>
    ELSE /\ editUpdate(k)
         /\ UNCHANGED <<state, result, errMsg, input, suggestions, calls,
                        thinkCh, thinkingText, ticks, subs>>

\* App.updateEdit / BatchApp.updateEdit
updateEdit(k) ==
    IF k = "esc" /\ ~edit.editing
    THEN /\ suggestions' = [suggestions EXCEPT !.ref = edit.ref]
         /\ state' = "suggestion"
         /\ edit' = NoEdit
         /\ UNCHANGED <<loop, result, errMsg, input, heap, calls,
                        thinkCh, thinkingText, ticks, subs, nCommits>>
    ELSE /\ editUpdate(k)
         /\ UNCHANGED <<state, result, errMsg, input, suggestions, calls,
                        thinkCh, thinkingText, ticks, subs>>

\* App.updateConfirmation / BatchApp.updateConfirmation
updateConfirmation(k) ==
    /\ Quit
    /\ UNCHANGED <<state, result, errMsg, input, suggestions, edit, heap,
                   calls, thinkCh, thinkingText, ticks, subs, nCommits>>

\* the second switch of Update: dispatch on the view state
Dispatch(k) ==
    CASE state = "input"      -> updateInput(k)
      [] state = "loading"    -> updateLoading(k)
      [] state = "suggestion" -> updateSuggestion(k)
      [] state = "edit"       -> updateEdit(k)
      [] OTHER                -> updateConfirmation(k)

\* a variant that marks the result it finds as skipped instead of replacing it
CancelKeepEntries ==
    /\ result' = [result EXCEPT !.set = TRUE, !.skipped = TRUE]
    /\ Quit
    /\ UNCHANGED <<state, errMsg, input, suggestions, edit, heap, calls,
                   thinkCh, thinkingText, ticks, subs, nCommits>>

\* the ctrl+c case of Update's first switch
Cancel ==
    /\ result' = SkippedResult
    /\ Quit
    /\ UNCHANGED <<state, errMsg, input, suggestions, edit, heap, calls,
                   thinkCh, thinkingText, ticks, subs, nCommits>>

\* a variant that leaves ctrl+c to the view state's handler while a field is edited
UpdateKeyLate(k) ==
    IF k = "ctrl+c" /\ ~(state = "edit" /\ edit.editing) THEN Cancel ELSE Dispatch(k)

\* App.Update / BatchApp.Update on a tea.KeyMsg
UpdateKey(k) == IF k = "ctrl+c" THEN Cancel ELSE Dispatch(k)

Handling == loop = "running"

\* the keys the user presses: while a text field has the focus, the text typed
\* is made of the runes of typed
Pressable(k) ==
    /\ (k \in TextKeys /\ state = "input") => k \in typed
    /\ (k \in TextKeys /\ state = "edit" /\ edit.editing) => k \in typed

KeyMsg(k) ==
    /\ Handling
    /\ Pressable(k)
    /\ UpdateKey(k)
    /\ ctrlC' = (ctrlC \/ k = "ctrl+c")
    /\ discarded' = IF state = "suggestion" /\ state' = "input"
                    THEN discarded \cup {suggestions.ref} ELSE discarded
    /\ UNCHANGED <<timedVars, auxVars, budget, typed, batch, db, ext, startTime, endTime>>

----------------------------------------------------------------------------
(* The AI call: App.startAI / BatchApp.queryAI, readThinking, tickCmd      *)

ChanCap == 100

SetCall(c, r) == [calls EXCEPT ![c] = r]

\* the backend emits a chunk: OnThinking offers it to the channel and drops
\* it when the channel is full (streaming exists in the single-interval App only)
AIEmit(c) ==
    /\ Handling /\ ~batch
    /\ c \in DOMAIN calls
    /\ calls[c].phase = "running"
    /\ calls[c].emitted < MaxChunks
    /\ calls' = SetCall(c, [calls[c] EXCEPT
                    !.emitted = @ + 1,
                    !.ch = IF Len(@) < ChanCap
                           THEN Append(@, <<c, calls[c].emitted + 1>>) ELSE @])
    /\ UNCHANGED <<timedVars, auxVars, budget, typed, batch, ctrlC, discarded, state, loop, result, errMsg, input, suggestions,
                   edit, heap, thinkCh, thinkingText, ticks, subs, db, ext,
                   startTime, endTime, nCommits>>

\* MatchProjects / MatchProjectsBatch returns an error (a failure of the
\* backend, or the cancelled context); the deferred close(ch) runs and the
\* command's aiResponseMsg is on its way
AIFail(c) ==
    /\ Handling
    /\ c \in DOMAIN calls
    /\ calls[c].phase = "running"
    /\ calls' = SetCall(c, [calls[c] EXCEPT !.phase = "returned",
                               !.closed = ~batch, !.err = TRUE])
    /\ UNCHANGED <<timedVars, auxVars, budget, typed, batch, ctrlC, discarded, state, loop, result, errMsg, input, suggestions,
                   edit, heap, thinkCh, thinkingText, ticks, subs, db, ext,
                   startTime, endTime, nCommits>>

\* MatchProjects / MatchProjectsBatch returns a parsed suggestion, whose
\* allocation slice is a fresh array
AIReturn(c) ==
    /\ Handling
    /\ c \in DOMAIN calls
    /\ calls[c].phase = "running"
    /\ \E ans \in Answers(batch) :
         /\ heap' = Append(heap, ans.allocations)
         /\ calls' = SetCall(c, [calls[c] EXCEPT
                         !.phase = "returned", !.closed = ~batch,
                         !.ref = Len(heap) + 1,
                         !.clarification = ans.clarification])
    /\ UNCHANGED <<timedVars, auxVars, budget, typed, batch, ctrlC, discarded, state, loop, result, errMsg, input, suggestions,
                   edit, thinkCh, thinkingText, ticks, subs, db, ext,
                   startTime, endTime, nCommits>>

\* a variant whose error branch does not return: it goes on to store the
\* message's suggestion and to show it
handleAIResponseFallThrough(c) ==
    /\ errMsg' = IF calls[c].err THEN <<"ai">> ELSE errMsg
    /\ suggestions' = [ref |-> calls[c].ref,
                       clarification |-> calls[c].clarification,
                       cursor |-> 0]
    /\ state' = "suggestion"

\* a variant that answers an error by going back to Input, where the text
\* can be submitted again
handleAIResponseToInput(c) ==
    IF calls[c].err
    THEN /\ state' = "input"
         /\ errMsg' = <<"ai">>
         /\ UNCHANGED suggestions
    ELSE /\ suggestions' = [ref |-> calls[c].ref,
                            clarification |-> calls[c].clarification,
                            cursor |-> 0]
         /\ state' = "suggestion"
         /\ UNCHANGED errMsg

\* App.handleAIResponse / BatchApp.handleAIResponse
handleAIResponse(c) ==
    IF calls[c].err
    THEN /\ state' = "confirmation"
         /\ errMsg' = <<"ai">>
         /\ UNCHANGED suggestions
    ELSE /\ suggestions' = [ref |-> calls[c].ref,
                            clarification |-> calls[c].clarification,
                            cursor |-> 0]
         /\ state' = "suggestion"
         /\ UNCHANGED errMsg

\* Update on an aiResponseMsg / batchAIResponseMsg
AIResponseMsg(c) ==
    /\ Handling
    /\ c \in DOMAIN calls
    /\ calls[c].phase = "returned"
    /\ handleAIResponse(c)
    /\ calls' = SetCall(c, [calls[c] EXCEPT !.phase = "handled"])
    /\ UNCHANGED <<timedVars, auxVars, budget, typed, batch, ctrlC, discarded, loop, result, input, edit, heap, thinkCh,
                   thinkingText, ticks, subs, db, ext, startTime, endTime,
                   nCommits>>

\* a readThinking command receives from its channel: the next chunk, which
\* becomes a thinkingMsg, or the close, which becomes a thinkingDoneMsg (Update
\* returns on it without a change, so the message is not kept)
ReadThinking(c) ==
    /\ Handling
    /\ c \in DOMAIN calls
    /\ calls[c].readers > 0
    /\ calls[c].ch # <<>> \/ calls[c].closed
    /\ calls' = SetCall(c,
          IF calls[c].ch # <<>>
          THEN [calls[c] EXCEPT !.readers = @ - 1, !.ch = Tail(@),
                                !.msgs = Append(@, Head(calls[c].ch))]
          ELSE [calls[c] EXCEPT !.readers = @ - 1])
    /\ UNCHANGED <<timedVars, auxVars, budget, typed, batch, ctrlC, discarded, state, loop, result, errMsg, input, suggestions,
                   edit, heap, thinkCh, thinkingText, ticks, subs, db, ext,
                   startTime, endTime, nCommits>>

RemoveAt(q, j) == SubSeq(q, 1, j - 1) \o SubSeq(q, j + 1, Len(q))

\* Update on a thinkingMsg: the chunk is appended and the next read is issued
\* on App.thinkCh
ThinkingMsg(c, j) ==
    /\ Handling
    /\ c \in DOMAIN calls
    /\ j \in DOMAIN calls[c].msgs
    /\ LET m == calls[c].msgs[j]
           drop == SetCall(c, [calls[c] EXCEPT !.msgs = RemoveAt(@, j)])
       IN  /\ thinkingText' = Append(thinkingText, m)
           /\ calls' = [drop EXCEPT ![thinkCh].readers = @ + 1]
    /\ UNCHANGED <<timedVars, auxVars, budget, typed, batch, ctrlC, discarded, state, loop, result, errMsg, input, suggestions,
                   edit, heap, thinkCh, ticks, subs, db, ext, startTime,
                   endTime, nCommits>>

\* a variant that never re-arms the tick
TickMsgOnce ==
    /\ Handling
    /\ ticks > 0
    /\ ticks' = ticks - 1
    /\ UNCHANGED <<timedVars, auxVars, budget, typed, batch, ctrlC, discarded, state, loop, result, errMsg, input, suggestions,
                   edit, heap, calls, thinkCh, thinkingText, subs, db, ext,
                   startTime, endTime, nCommits>>

\* Update on a tickMsg: re-armed while loading
TickMsg ==
    /\ Handling
    /\ ticks > 0
    /\ ticks' = IF state = "loading" THEN ticks ELSE ticks - 1
    /\ UNCHANGED <<timedVars, auxVars, budget, typed, batch, ctrlC, discarded, state, loop, result, errMsg, input, suggestions,
                   edit, heap, calls, thinkCh, thinkingText, subs, db, ext,
                   startTime, endTime, nCommits>>

----------------------------------------------------------------------------
(* The submission pipeline: App.submitAllocations /                        *)
(* BatchApp.submitAllocations                                              *)

SetSub(t, r) == [subs EXCEPT ![t] = r]

\* the store.Entry built for one allocation (without RawInput, which no
\* property here reads)
StoreEntry(alloc, id, st, en, status) ==
    [clockifyID |-> id, projectID |-> alloc.projectID,
     projectName |-> alloc.projectName,
     clientName |-> IF batch THEN "" ELSE alloc.clientName,
     description |-> alloc.description, startTime |-> st, endTime |-> en,
     minutes |-> alloc.minutes, status |-> status]

\* a variant that gives the submission up when CreateTimeEntry fails
ProcessItemOrAbort(t, alloc, st, en, ok) ==
    IF ok
    THEN LET id == <<Len(ext) + 1>>
             e  == StoreEntry(alloc, id, st, en, "logged")
         IN  /\ ext' = Append(ext, [id |-> id, start |-> st, end |-> en,
                                    projectID |-> alloc.projectID,
                                    description |-> alloc.description,
                                    sub |-> t, item |-> subs[t].i])
             /\ db' = Append(db, e)
             /\ subs' = [subs EXCEPT ![t] = [subs[t] EXCEPT
                            !.entries = Append(@, e), !.i = @ + 1,
                            !.phase = IF subs[t].i = subs[t].n
                                      THEN "returned" ELSE "running"]]
    ELSE /\ subs' = [subs EXCEPT ![t] = [subs[t] EXCEPT
                        !.phase = "returned", !.err = <<"creating entry">>]]
         /\ UNCHANGED <<db, ext>>

\* one iteration of the loop over the allocations, for a window that is
\* known: CreateTimeEntry succeeds (ok) or fails, the row is inserted either
\* way
ProcessItem(t, alloc, st, en, ok) ==
    LET id == IF ok THEN <<Len(ext) + 1>> ELSE <<>>
        e  == StoreEntry(alloc, id, st, en, IF ok THEN "logged" ELSE "failed")
    IN  /\ ext' = IF ok
                  THEN Append(ext, [id |-> id, start |-> st, end |-> en,
                                    projectID |-> alloc.projectID,
                                    description |-> alloc.description,
                                    sub |-> t, item |-> subs[t].i])
                  ELSE ext
        /\ db' = Append(db, e)
        /\ subs' = SetSub(t, [subs[t] EXCEPT
                       !.entries = Append(@, e), !.i = @ + 1,
                       !.phase = IF subs[t].i = subs[t].n
                                 THEN "returned" ELSE "running"])

\* the submission ends with an error: no entries are returned
Abort(t, why) ==
    /\ subs' = SetSub(t, [subs[t] EXCEPT !.phase = "returned", !.err = why])
    /\ UNCHANGED <<db, ext>>

\* App.submitAllocations: the window walks forward from App.startTime
SubmitItemSingle(t, alloc, ok) ==
    LET entryStart == startTime
        entryEnd == Min(entryStart + alloc.minutes, endTime)
    IN  /\ ProcessItem(t, alloc, entryStart, entryEnd, ok)
        /\ startTime' = entryEnd

\* BatchApp.submitAllocations: the window is parsed from the allocation
SubmitItemBatch(t, alloc, ok) ==
    /\ IF ~ParseOK(alloc.date, alloc.startTime)
       THEN Abort(t, <<"parsing start time">>)
       ELSE IF ~ParseOK(alloc.date, alloc.endTime)
       THEN Abort(t, <<"parsing end time">>)
       ELSE ProcessItem(t, alloc, parseBatchTime(alloc.date, alloc.startTime),
                        parseBatchTime(alloc.date, alloc.endTime), ok)
    /\ UNCHANGED startTime

\* the command's goroutine handles its next allocation, read from the
\* slice's backing array at that moment
SubmitStep(t) ==
    /\ Handling
    /\ t \in DOMAIN subs
    /\ subs[t].phase = "running"
    /\ \E ok \in BOOLEAN :
         LET alloc == heap[subs[t].ref][subs[t].i]
         IN  IF batch THEN SubmitItemBatch(t, alloc, ok)
                      ELSE SubmitItemSingle(t, alloc, ok)
    /\ UNCHANGED <<timedVars, auxVars, budget, typed, batch, ctrlC, discarded, state, loop, result, errMsg, input, suggestions,
                   edit, heap, calls, thinkCh, thinkingText, ticks, endTime,
                   nCommits>>

\* App.handleSubmit / BatchApp.handleSubmit
handleSubmit(t) ==
    IF subs[t].err # <<>>
    THEN /\ state' = "confirmation"
         /\ errMsg' = subs[t].err
         /\ UNCHANGED result
    ELSE /\ result' = EntriesResult(subs[t].entries)
         /\ state' = "confirmation"
         /\ UNCHANGED errMsg

\* Update on a submitMsg / batchSubmitMsg
SubmitMsg(t) ==
    /\ Handling
    /\ t \in DOMAIN subs
    /\ subs[t].phase = "returned"
    /\ handleSubmit(t)
    /\ subs' = SetSub(t, [subs[t] EXCEPT !.phase = "handled"])
    /\ UNCHANGED <<timedVars, auxVars, budget, typed, batch, ctrlC, discarded, loop, input, suggestions, edit, heap, calls,
                   thinkCh, thinkingText, ticks, db, ext, startTime, endTime,
                   nCommits>>

----------------------------------------------------------------------------
(* The review loop                                                         *)

vars == <<uiVars, timedVars, auxVars>>

\* nothing around the review loop is followed
Off == [on |-> FALSE]
NoAux == cli = Off /\ sched = Off /\ view = Off /\ wd = Off /\ req = Off

\* no call is timed
Untimed ==
    /\ now = 0
    /\ callState = "none"
    /\ ctxErr = ""
    /\ lastActivity = 0
    /\ nextPoll = 0
    /\ lastChunk = 0
    /\ gapOver = FALSE

Init == UIInit /\ Untimed /\ NoAux /\ budget = MaxEvents /\ typed = TypedInput \cup TypedField

\* keys, the AI call's outcome and the submissions
Next ==
    \/ \E k \in Keys : KeyMsg(k)
    \/ \E c \in 1..MaxEvents : AIFail(c)
    \/ \E c \in 1..MaxEvents : AIReturn(c)
    \/ \E c \in 1..MaxEvents : AIResponseMsg(c)
    \/ \E t \in 1..MaxEvents : SubmitStep(t)
    \/ \E t \in 1..MaxEvents : SubmitMsg(t)

Spec == Init /\ [][Next]_vars

\* the runs that stop one command (or commit) earlier
InitShort ==
    UIInit /\ Untimed /\ NoAux /\ budget = MaxEvents - 1 /\ typed = TypedInput \cup TypedField

SpecShort == InitShort /\ [][Next]_vars

\* the same with the chunks of the streaming call and the one-second tick
NextStream ==
    \/ Next
    \/ \E c \in 1..MaxEvents : AIEmit(c)
    \/ \E c \in 1..MaxEvents : ReadThinking(c)
    \/ \E c \in 1..MaxEvents : \E j \in 1..MaxChunks : ThinkingMsg(c, j)
    \/ TickMsg

SpecStream == Init /\ [][NextStream]_vars

\* the streaming program followed for one command less
SpecStreamShort == InitShort /\ [][NextStream]_vars

\* the program with its one-second tick, the stream of chunks left aside
NextTick ==
    \/ Next
    \/ TickMsg

\* the tick exists in the single-interval App only
InitTick == InitShort /\ ~batch

SpecTick == InitTick /\ [][NextTick]_vars

\* the review of one answer: the program from the state in which the first
\* call's answer has been handled (Suggestion), driven by the keyboard alone,
\* with a larger choice of runes for the editor's fields
InitEdit ==
    /\ batch \in BOOLEAN
    /\ state = "suggestion"
    /\ loop = "running"
    /\ result = NilResult
    /\ errMsg = <<>>
    /\ startTime = 0
    /\ endTime = 60
    /\ input = [newInputModel(TimeInfo(startTime, endTime)) EXCEPT !.text = <<"5">>]
    /\ \E ans \in Answers(batch) :
          /\ heap = <<ans.allocations>>
          /\ calls = << [NewCall(IF batch THEN 0 ELSE 1) EXCEPT
                            !.phase = "handled", !.closed = ~batch, !.ref = 1,
                            !.clarification = ans.clarification] >>
          /\ suggestions = [ref |-> 1, clarification |-> ans.clarification,
                            cursor |-> 0]
    /\ edit = NoEdit
    /\ thinkCh = IF batch THEN 0 ELSE 1
    /\ thinkingText = <<>>
    /\ ticks = IF batch THEN 0 ELSE 1
    /\ subs = <<>>
    /\ db = <<>>
    /\ ext = <<>>
    /\ nCommits = 0
    /\ ctrlC = FALSE
    /\ discarded = {}
    /\ budget = Len(calls) + 1     \* one command or commit after the answer
    /\ typed = TypedEdit
    /\ Untimed
    /\ NoAux

NextEdit == \E k \in Keys : KeyMsg(k)

SpecEdit == InitEdit /\ [][NextEdit]_vars

----------------------------------------------------------------------------
(* The timing of an AI call: context.WithTimeout in BatchApp.queryAI,      *)
(* context.WithCancel and the idle watchdog in App.startAI.  Time is in    *)
(* seconds; a run is followed until the call's command returns.            *)

IdleLimit == 120      \* idleTimeout(cancel, 2*time.Minute)
PollPeriod == 5       \* time.Sleep(5 * time.Second)
BatchTimeout == 120   \* context.WithTimeout(..., 120*time.Second)

Horizon == 128        \* seconds a call is followed
MaxLate == 1          \* seconds by which a time.Sleep may overshoot

\* queryAI derives its context with a deadline, startAI with WithCancel only
NoDeadline == FALSE
HasDeadline == batch

\* the state after "enter" on a non-empty description: the command starts
InitTimed ==
    /\ batch \in BOOLEAN
    /\ state = "loading"
    /\ loop = "running"
    /\ result = NilResult
    /\ errMsg = <<>>
    /\ startTime = 0
    /\ endTime = 60
    /\ input = [newInputModel(TimeInfo(startTime, endTime)) EXCEPT !.text = <<"5">>]
    /\ suggestions = [ref |-> 0, clarification |-> <<>>, cursor |-> 0]
    /\ edit = NoEdit
    /\ heap = <<>>
    /\ calls = <<NewCall(IF batch THEN 0 ELSE 1)>>
    /\ thinkCh = IF batch THEN 0 ELSE 1
    /\ thinkingText = <<>>
    /\ ticks = IF batch THEN 0 ELSE 1
    /\ subs = <<>>
    /\ db = <<>>
    /\ ext = <<>>
    /\ nCommits = 0
    /\ ctrlC = FALSE
    /\ discarded = {}
    /\ budget = MaxEvents
    /\ typed = TypedInput \cup TypedField
    /\ NoAux
    /\ now = 0
    /\ callState = "running"
    /\ ctxErr = ""
    /\ lastActivity = 0
    /\ lastChunk = 0
    /\ gapOver = FALSE
    /\ nextPoll \in IF batch THEN {0} ELSE {PollPeriod + l : l \in 0..MaxLate}

\* the watchdog's goroutine has not returned
WatchdogAlive == ~batch /\ ctxErr # "canceled"

\* a second passes; a sleep that is over and a deadline that is reached act first
Tick ==
    /\ callState = "running"
    /\ now < Horizon
    /\ WatchdogAlive => now < nextPoll
    /\ (HasDeadline /\ ctxErr = "") => now < BatchTimeout
    /\ now' = now + 1
    /\ UNCHANGED <<uiVars, auxVars, callState, ctxErr, lastActivity, nextPoll, lastChunk,
                   gapOver>>

\* the timer of context.WithTimeout fires
Deadline ==
    /\ callState = "running"
    /\ HasDeadline
    /\ ctxErr = ""
    /\ now = BatchTimeout
    /\ ctxErr' = "deadline"
    /\ UNCHANGED <<uiVars, auxVars, now, callState, lastActivity, nextPoll, lastChunk,
                   gapOver>>

\* a variant of OnThinking that does not call resetIdle
OnThinkingNoReset ==
    /\ callState = "running"
    /\ ~batch
    /\ lastChunk' = now
    /\ gapOver' = (gapOver \/ now - lastChunk > IdleLimit)
    /\ UNCHANGED <<uiVars, auxVars, now, callState, ctxErr, lastActivity, nextPoll>>

\* the OnThinking callback startAI installs: resetIdle(), then the chunk is
\* offered to the channel
OnThinking ==
    /\ callState = "running"
    /\ ~batch
    /\ lastActivity' = now
    /\ lastChunk' = now
    /\ gapOver' = (gapOver \/ now - lastChunk > IdleLimit)
    /\ UNCHANGED <<uiVars, auxVars, now, callState, ctxErr, nextPoll>>

\* one round of the watchdog's loop, when its sleep returns
Poll ==
    /\ callState = "running"
    /\ WatchdogAlive
    /\ now = nextPoll
    /\ IF now - lastActivity >= IdleLimit
       THEN /\ ctxErr' = "canceled"
            /\ UNCHANGED nextPoll
       ELSE /\ \E l \in 0..MaxLate : nextPoll' = now + PollPeriod + l
            /\ UNCHANGED ctxErr
    /\ UNCHANGED <<uiVars, auxVars, now, callState, lastActivity, lastChunk, gapOver>>

\* the backend answers: the command returns a suggestion
CallOK ==
    /\ callState = "running"
    /\ ctxErr = ""
    /\ callState' = "ok"
    /\ UNCHANGED <<uiVars, auxVars, now, ctxErr, lastActivity, nextPoll, lastChunk, gapOver>>

\* the backend fails, or its process is killed when the context is done
\* ("claude CLI timed out after ..."): the command returns an error
CallErr ==
    /\ callState = "running"
    /\ callState' = "err"
    /\ UNCHANGED <<uiVars, auxVars, now, ctxErr, lastActivity, nextPoll, lastChunk, gapOver>>

NextTimed ==
    \/ Tick
    \/ Deadline
    \/ OnThinking
    \/ Poll
    \/ CallOK
    \/ CallErr

SpecTimed == InitTimed /\ [][NextTimed]_vars

----------------------------------------------------------------------------
(* Properties of the review loop (specifications Spec and SpecShort)       *)

\* C1: a ctrl+c key message handled in any view state, also while a field is
\* being edited, sets the result to skipped and quits, and nothing the view
\* state's own key handler does takes place.
C1_CtrlCSkipsAndQuits ==
    [][(ctrlC' /\ ~ctrlC) =>
          /\ loop' = "exited"
          /\ result' = SkippedResult
          /\ <<state, input, suggestions, edit, heap, calls, subs>>' =
             <<state, input, suggestions, edit, heap, calls, subs>>]_vars

\* ctrl+c has been handled while a field of the batch editor was being edited
C1_Witness ==
    /\ ctrlC /\ batch
    /\ state = "edit" /\ edit.editing
    /\ loop = "exited" /\ result = SkippedResult

\* the transitions of the view-state table
TransitionTable ==
    { <<"input", "loading">>, <<"loading", "suggestion">>,
      <<"loading", "confirmation">>, <<"suggestion", "edit">>,
      <<"suggestion", "input">>, <<"suggestion", "confirmation">>,
      <<"edit", "suggestion">> }

\* C2: every change of the view state is one of the table's transitions.
C2_OnlyTableTransitions ==
    [][state' # state => <<state, state'>> \in TransitionTable]_vars

\* the i-th record carries the i-th allocation's project, minutes and description
Carries(rows, allocs) ==
    /\ Len(rows) = Len(allocs)
    /\ \A i \in 1..Len(rows) :
         /\ rows[i].projectID = allocs[i].projectID
         /\ rows[i].minutes = allocs[i].minutes
         /\ rows[i].description = allocs[i].description

\* C3: when the loop has ended after the one suggestion of the run was
\* accepted and its submission reported, exactly its N allocations are
\* persisted, the i-th record carrying the i-th allocation's project, minutes
\* and description.
C3_ExactlyNPersisted ==
    (/\ loop = "exited" /\ state = "confirmation" /\ errMsg = <<>>
     /\ Len(calls) = 1 /\ subs # <<>>)
    => Carries(db, subs[1].accepted)

\* C4: a batch submission that ends with a parse error has created no entry
\* in the time-tracking service and persisted no row.
C4_ParseAbortPersistsNothing ==
    \A t \in DOMAIN subs :
      (batch /\ subs[t].err # <<>>) =>
         /\ subs[t].entries = <<>>
         /\ \A j \in DOMAIN ext : ext[j].sub # t

\* the windows of a submission's allocations all parse (App computes them)
WindowsParse(allocs) ==
    batch => \A i \in 1..Len(allocs) :
               /\ ParseOK(allocs[i].date, allocs[i].startTime)
               /\ ParseOK(allocs[i].date, allocs[i].endTime)

Finished(t) == subs[t].phase \in {"returned", "handled"}

\* C5: a finished submission of N allocations whose windows all parse returns
\* no error and N records in allocation order, whichever createEntry calls
\* failed: a failed item has status failed and no external identifier, any
\* other item has status logged and the identifier of the entry created for
\* it, and the handled result is these N records.
C5_FailuresDoNotAbort ==
    \A t \in DOMAIN subs :
      Finished(t) =>
         /\ (nCommits = 0 /\ WindowsParse(subs[t].accepted)) =>
               (subs[t].err = <<>> /\ Carries(subs[t].entries, subs[t].accepted))
         /\ subs[t].err = <<>> =>
               /\ Len(subs[t].entries) = subs[t].n
               /\ \A i \in 1..Len(subs[t].entries) :
                    LET e == subs[t].entries[i]
                    IN  \/ /\ e.status = "failed"
                           /\ e.clockifyID = <<>>
                           /\ \A j \in DOMAIN ext :
                                ~(ext[j].sub = t /\ ext[j].item = i)
                        \/ /\ e.status = "logged"
                           /\ \E j \in DOMAIN ext :
                                /\ ext[j].sub = t /\ ext[j].item = i
                                /\ ext[j].id = e.clockifyID
               /\ (subs[t].phase = "handled" /\ Len(subs) = 1 /\ ~result.skipped) =>
                     result = EntriesResult(subs[t].entries)

\* the first item's creation failed, the second was created, and the result
\* has been handed over
C5_Witness ==
    /\ Len(subs) = 1 /\ subs[1].phase = "handled" /\ nCommits = 0
    /\ Len(subs[1].entries) = 2
    /\ subs[1].entries[1].status = "failed"
    /\ subs[1].entries[2].status = "logged"
    /\ result = EntriesResult(subs[1].entries)

\* C6: while the view state stays Edit, nothing the editor does changes the
\* allocation list of the suggestion.
C6_CommitsLeaveSuggestion ==
    [][(state = "edit" /\ state' = "edit") => SuggAllocs' = SuggAllocs]_vars

\* C7: once the view state is Confirmation it stays Confirmation.
C7_ConfirmationTerminal ==
    [][state = "confirmation" => state' = "confirmation"]_vars

\* C8: in Suggestion, with a clarification shown, no step starts a submission
\* and no step enters Edit.
C8_ClarificationBlocksAcceptEdit ==
    [][(state = "suggestion" /\ suggestions.clarification # <<>>) =>
          (subs' = subs /\ state' # "edit")]_vars

----------------------------------------------------------------------------
(* Properties of a call's timing (specification SpecTimed)                 *)

\* C9: the watchdog cancels the call exactly when a period longer than the
\* idle limit passes without a chunk: a call that returned its answer without
\* having been cancelled had no such period.
C9_CancelledIffGapOver ==
    (~batch /\ callState = "ok") => ~gapOver

\* C9, amended: the watchdog cancels only at a poll that finds at least the
\* idle limit of silence, and a running call whose silence has lasted longer
\* than the idle limit plus one sleep of the watchdog has been cancelled.
C9_CancelledAtPoll ==
    [][/\ (ctxErr' = "canceled" /\ ctxErr # "canceled") =>
              now - lastChunk >= IdleLimit
       /\ (~batch /\ callState = "running"
              /\ now - lastChunk > IdleLimit + PollPeriod + MaxLate)' =>
              (ctxErr = "canceled")']_vars

\* a call that emitted a chunk, stalled, and was cancelled by the watchdog
C9_Witness ==
    /\ ~batch /\ lastChunk > 0
    /\ ctxErr = "canceled" /\ callState = "err"

\* C10: a call that is running and not cancelled is within its hard request
\* timeout, 60 s in the single-interval machine and 120 s in the batch machine.
C10_HardTimeoutBoth ==
    (callState = "running" /\ ctxErr = "") =>
        now <= (IF batch THEN BatchTimeout ELSE 60)

\* C10, amended: the batch call is cancelled by its deadline once it has run
\* for 120 s and then returns no answer; the single-interval call has no
\* deadline (only the idle watchdog cancels it).
C10_BatchDeadlineOnly ==
    /\ (batch /\ now > BatchTimeout) => (ctxErr = "deadline" /\ callState # "ok")
    /\ ~batch => ctxErr # "deadline"

\* a batch call that ran into its deadline and returned an error
C10_Witness ==
    /\ batch /\ now >= BatchTimeout
    /\ ctxErr = "deadline" /\ callState = "err"

----------------------------------------------------------------------------
(* The stream of an AI call                                                *)

\* the call a chunk message belongs to (a chunk is <<call, index>>)
ChunkCall(m) == m[1]
ChunkIndex(m) == m[2]

\* Update has appended a chunk to the transcript in this step
ChunkHandled ==
    /\ thinkingText' # thinkingText
    /\ thinkingText' # <<>>

\* C11: every chunk message of a call is handled before the call's terminal
\* outcome: no chunk message is handled once Update has handled the
\* aiResponseMsg of its call
C11_ChunksBeforeOutcome ==
    [][ChunkHandled =>
          calls[ChunkCall(thinkingText'[Len(thinkingText')])].phase # "handled"]_vars

\* C12: the transcript is an in-order concatenation of a subsequence of the
\* chunks the current call emitted: every chunk in it belongs to the call the
\* transcript was reset for, and the chunks stand in the order of emission,
\* none twice
C12_TranscriptInOrder ==
    \A i \in DOMAIN thinkingText :
        /\ ChunkCall(thinkingText[i]) = thinkCh
        /\ \A j \in 1..(i - 1) :
              ChunkIndex(thinkingText[j]) < ChunkIndex(thinkingText[i])

----------------------------------------------------------------------------
(* Threads                                                                 *)

\* a step of the UI thread: Update handles one message
UIHandler ==
    \/ \E k \in Keys : KeyMsg(k)
    \/ \E c \in 1..MaxEvents : AIResponseMsg(c)
    \/ \E t \in 1..MaxEvents : SubmitMsg(t)
    \/ \E c \in 1..MaxEvents : \E j \in 1..MaxChunks : ThinkingMsg(c, j)
    \/ TickMsg

\* C13: apart from the watchdog's timestamp, the program's state (here the
\* interval start time) is read and written only inside UI message handlers:
\* the interval start time changes only in a step of the UI thread
C13_StartTimeOnlyInHandlers ==
    [][startTime' # startTime => UIHandler]_vars

----------------------------------------------------------------------------
(* The view states' handlers                                               *)

C15_OutcomeInLoading ==
    [][\A c \in 1..MaxEvents :
          (state = "loading" /\ AIResponseMsg(c)) =>
              IF calls[c].err
              THEN /\ state' = "confirmation"
                   /\ errMsg' # <<>>
                   /\ suggestions' = suggestions
              ELSE /\ state' = "suggestion"
                   /\ suggestions'.ref = calls[c].ref
                   /\ suggestions'.clarification = calls[c].clarification
                   /\ suggestions'.cursor = 0
                   /\ errMsg' = errMsg]_vars

\* the error outcome of the first call was handled in Loading
C15_Witness ==
    /\ state = "confirmation"
    /\ errMsg # <<>>
    /\ Len(calls) = 1 /\ calls[1].phase = "handled" /\ calls[1].err
    /\ suggestions.ref = 0

\* C18: the reviewer's cursor satisfies 0 <= cursor <= max(0, len - 1), len
\* the number of allocations of the suggestion, under any sequence of up and
\* down, also after the return from Edit
C18_CursorInRange ==
    /\ 0 <= suggestions.cursor
    /\ suggestions.cursor <= IF Len(SuggAllocs) > 1 THEN Len(SuggAllocs) - 1 ELSE 0

\* back in Suggestion from the editor (a field was committed there), with the
\* cursor on the last of several allocations
C18_Witness ==
    /\ state = "suggestion"
    /\ nCommits > 0
    /\ Len(SuggAllocs) > 1
    /\ suggestions.cursor = Len(SuggAllocs) - 1

\* C17: retry in Suggestion moves to Input with an empty text field and the
\* time-window label it had, and the allocations of the suggestion it discards
\* are never submitted afterwards: no allocation of a discarded suggestion is
\* processed by a submission
C17_RetryDiscards ==
    [][/\ (state = "suggestion" /\ KeyMsg("r")) =>
              /\ state' = "input"
              /\ input'.text = <<>>
              /\ input'.timeInfo = input.timeInfo
       /\ \A t \in 1..MaxEvents :
              SubmitStep(t) => subs[t].ref \notin discarded]_vars

----------------------------------------------------------------------------
(* The editor                                                              *)

\* C16: in Edit, esc while a field is edited discards the buffer, returns the
\* editor to navigating and stays in Edit with the allocations unchanged; esc
\* while navigating moves to Suggestion, the suggestion's allocations being
\* the editor's allocations
C16_EscInEdit ==
    [][(state = "edit" /\ KeyMsg("esc")) =>
          IF edit.editing
          THEN /\ state' = "edit"
               /\ ~edit'.editing
               /\ edit'.cursor = edit.cursor /\ edit'.field = edit.field
               /\ heap' = heap
               /\ suggestions' = suggestions
          ELSE /\ state' = "suggestion"
               /\ SuggAllocs' = Allocations(edit.ref)
               /\ heap' = heap]_vars

\* a minutes edit was committed in the editor and esc has brought the edited
\* list back to Suggestion
C16_Witness ==
    /\ state = "suggestion"
    /\ nCommits = 1
    /\ Len(SuggAllocs) = 2
    /\ SuggAllocs[1].minutes = 5

\* two runes that are the same letter up to case
FoldEq(a, b) == a = b \/ {a, b} \in {{"A", "a"}, {"S", "s"}}

\* name contains text, case-insensitively
ContainsFold(name, text) ==
    \E i \in 0..(Len(name) - Len(text)) :
        \A j \in 1..Len(text) : FoldEq(name[i + j], text[j])

\* the projects of the full list, in its order, whose name contains text
MatchesOf(text) == SelectSeq(Projects, LAMBDA p : ContainsFold(p.name, text))

ProjectFieldOpen == state = "edit" /\ edit.editing /\ edit.field = FProject

\* C19: while the project field is edited, after every keystroke the filtered
\* list is the subsequence (original order) of the full project list whose
\* names contain the buffer case-insensitively; a commit sets the project of
\* the allocation under the cursor to element 0 of that list when the list is
\* non-empty (with an empty buffer: the first project of the full list) and
\* changes nothing when it is empty
C19_FilterAndCommit ==
    [][/\ ProjectFieldOpen' => edit'.filtered = MatchesOf(edit'.buf)
       /\ (ProjectFieldOpen /\ KeyMsg("enter")
              /\ edit.cursor < Len(Allocations(edit.ref))) =>
              LET new == heap'[edit.ref][edit.cursor + 1]
                  matches == MatchesOf(edit.buf)
              IN  IF matches # <<>>
                  THEN /\ new.projectID = matches[1].id
                       /\ new.projectName = matches[1].name
                       /\ edit.buf = <<>> => new.projectID = Projects[1].id
                  ELSE heap' = heap]_vars

\* a search selected the second project for the first allocation
C19_Witness ==
    /\ state = "edit" /\ ~edit.editing /\ edit.field = FProject
    /\ nCommits = 1
    /\ edit.cursor = 0
    /\ heap[edit.ref][1].projectID = "p2"

\* a decimal numeral of a positive integer
PositiveInteger(text) ==
    /\ text # <<>>
    /\ \A i \in 1..Len(text) : text[i] \in DOMAIN Digit
    /\ \E i \in 1..Len(text) : text[i] # "0"

\* the buffer passes the validation of the field
PassesValidation(field, text) ==
    IF field = FMinutes THEN PositiveInteger(text) ELSE text # <<>>

\* the allocation's component a field selector stands for
FieldKey(field) ==
    CASE field = FMinutes     -> "minutes"
      [] field = FDescription -> "description"
      [] field = FStartTime   -> "startTime"
      [] OTHER                -> "endTime"

\* the value a buffer stands for in a field
FieldValue(field, text) == IF field = FMinutes THEN AtoiVal(text) ELSE text

\* C20: a commit of Minutes, Description, Start time or End time that fails
\* validation (Minutes: not a positive integer; the others: empty buffer)
\* leaves every allocation unchanged, returns the editor to navigating and
\* raises no error state; a valid buffer sets exactly that field of the
\* allocation under the cursor to the buffer's value
C20_CommitValidation ==
    [][(state = "edit" /\ edit.editing /\ edit.field # FProject
            /\ KeyMsg("enter")) =>
          /\ state' = "edit" /\ ~edit'.editing
          /\ errMsg' = errMsg /\ loop' = loop /\ result' = result
          /\ IF PassesValidation(edit.field, edit.buf)
             THEN LET old == heap[edit.ref]
                      new == heap'[edit.ref]
                  IN  /\ Len(new) = Len(old)
                      /\ \A i \in DOMAIN old : \A key \in DOMAIN old[i] :
                            new[i][key] =
                              IF i = edit.cursor + 1 /\ key = FieldKey(edit.field)
                              THEN FieldValue(edit.field, edit.buf)
                              ELSE old[i][key]
             ELSE heap' = heap]_vars

\* the minutes of the second allocation were set to the buffer's value, 5
C20_Witness ==
    /\ state = "edit" /\ ~edit.editing /\ edit.field = FMinutes
    /\ edit.cursor = 1
    /\ nCommits = 1
    /\ heap[edit.ref][2].minutes = 5

\* the editor has an allocation under its cursor
OnAllocation == edit.cursor < Len(Allocations(edit.ref))

\* a field has just been opened: the buffer is what enter seeded it with
JustOpened ==
    /\ state = "edit" /\ edit.editing /\ OnAllocation
    /\ edit.buf = Seed(Allocations(edit.ref)[edit.cursor + 1], edit.field)
    /\ edit.field = FProject => edit.filtered = Projects

\* C21: for every allocation, cursor and field selector, enter (start editing)
\* immediately followed by esc leaves the whole allocation list unchanged and
\* the editor in navigating mode with the same cursor and field: enter opens
\* the field without a change of list, cursor or selector, and esc on the
\* field just opened gives back the navigating editor enter was pressed in
C21_EnterThenEsc ==
    [][/\ (state = "edit" /\ ~edit.editing /\ OnAllocation /\ KeyMsg("enter")) =>
              /\ JustOpened'
              /\ heap' = heap
              /\ edit' = [edit EXCEPT !.editing = TRUE, !.buf = edit'.buf,
                                      !.filtered = edit'.filtered]
       /\ (JustOpened /\ KeyMsg("esc")) =>
              /\ state' = "edit"
              /\ heap' = heap
              /\ edit' = [NoEdit EXCEPT !.ref = edit.ref,
                                        !.cursor = edit.cursor,
                                        !.field = edit.field]]_vars

\* the minutes field of the second allocation has just been opened, nothing
\* typed and nothing committed so far
C21_Witness ==
    /\ JustOpened
    /\ edit.cursor = 1 /\ edit.field = FMinutes
    /\ nCommits = 0

----------------------------------------------------------------------------
(* The windows of a single-interval submission                             *)

\* the interval the run was started for, as NewApp put it in the label
IntervalStart == input.timeInfo[1]
IntervalEnd == input.timeInfo[2]

\* C22: in every single-interval submission, the first record's window starts
\* at the interval start, each later window starts where the previous one
\* ended, and each window ends at min(start + minutes, interval end)
C22_WindowsWalkForward ==
    ~batch =>
        \A t \in DOMAIN subs :
            LET es == subs[t].entries
            IN  \A i \in DOMAIN es :
                    /\ es[i].startTime =
                          IF i = 1 THEN IntervalStart ELSE es[i - 1].endTime
                    /\ es[i].endTime =
                          Min(es[i].startTime + es[i].minutes, IntervalEnd)

----------------------------------------------------------------------------
(* The one-second tick                                                     *)

\* the machine enters Loading in this step
EntersLoading == state # "loading" /\ state' = "loading"

\* C23: a tick is armed when the single-interval machine enters Loading; a
\* tick message re-arms the tick exactly when the state is Loading; a tick
\* handled in any other state arms nothing, and nothing else arms a tick: the
\* ticks scheduled never outnumber the AI calls started, and none is
\* scheduled before the first call
C23_TickOnlyWhileLoading ==
    [][~batch =>
          /\ EntersLoading => ticks' = ticks + 1
          /\ TickMsg => ticks' = IF state = "loading" THEN ticks ELSE ticks - 1
          /\ (~EntersLoading /\ ~TickMsg) => ticks' = ticks
          /\ ticks' <= Len(calls')
          /\ ticks' >= 0]_vars

\* Loading has been left and the pending tick has fired: no tick is scheduled
C23_Witness ==
    /\ ~batch
    /\ state = "suggestion"
    /\ Len(calls) = 1
    /\ ticks = 0

----------------------------------------------------------------------------
(* Errors                                                                  *)

\* C24: an AI call is started only by enter on a non-empty text in Input, and
\* none is started once a call of the run has completed with an error
C24_CallsOnlyFromInput ==
    [][calls' # calls /\ Len(calls') > Len(calls) =>
          /\ state = "input" /\ input.text # <<>>
          /\ KeyMsg("enter")
          /\ Len(calls') = Len(calls) + 1
          /\ \A c \in DOMAIN calls : ~calls[c].err]_vars

\* the run has ended after its only call failed
C24_Witness ==
    /\ loop = "exited"
    /\ Len(calls) = 1
    /\ calls[1].err /\ calls[1].phase = "handled"
    /\ errMsg # <<>>

\* the class of the error a Confirmation message reports
ErrClass(msg) ==
    CASE msg = <<>>     -> "none"
      [] msg = <<"ai">> -> "ai"
      [] OTHER          -> "parse"

\* C25: a per-entry creation failure leaves the error message empty; the
\* error message is set only by an AI invocation error or by an allocation
\* time-parse error; at most one error class is recorded in a run
C25_OneErrorClass ==
    [][/\ (\E t \in 1..MaxEvents : SubmitStep(t) \/ (SubmitMsg(t) /\ subs[t].err = <<>>))
              => errMsg' = errMsg
       /\ errMsg' # errMsg =>
              \/ \E c \in 1..MaxEvents : AIResponseMsg(c) /\ calls[c].err
              \/ \E t \in 1..MaxEvents : SubmitMsg(t) /\ ErrClass(subs[t].err) = "parse"
       /\ ErrClass(errMsg) # "none" => ErrClass(errMsg') = ErrClass(errMsg)]_vars

----------------------------------------------------------------------------
(* The result of a run                                                     *)

\* C26: when the loop has terminated with a result, the result is not
\* skipped together with a non-empty list of entries
C26_SkippedXorEntries ==
    (loop = "exited" /\ result.set) =>
        ~(result.skipped /\ result.entries # <<>>)

\* the run ended by ctrl+c in Confirmation, after a submission had stored its
\* entries and its result had been recorded: the result is skipped, without
\* entries
C26_Witness ==
    /\ loop = "exited"
    /\ ctrlC
    /\ result = SkippedResult
    /\ state = "confirmation"
    /\ \E t \in DOMAIN subs : subs[t].phase = "handled" /\ subs[t].entries # <<>>

----------------------------------------------------------------------------
(* The claude CLI invoker: ClaudeCLI.runBufferedCLI / runStreamingCLI      *)
(*                                                                         *)
(* A JSON value is <<kind, a, b>>: an object carries its structured_output *)
(* and result fields, a string carries its text.  A text ([]byte, string)  *)
(* is empty, plain (not JSON) or the encoding of a value.  No review loop  *)
(* runs.                                                                   *)

\* null, a number, an array; a field that is missing (len(raw) = 0)
Atom(kind) == <<kind, <<>>, <<>>>>
Absent == Atom("absent")
Str(t) == <<"str", t, <<>>>>
Obj(so, r) == <<"obj", so, r>>

EmptyText == Atom("empty")
PlainText == Atom("plain")
Json(v) == <<"json", v, <<>>>>

\* string(raw) of a json.RawMessage
RawString(v) == IF v = Absent THEN EmptyText ELSE Json(v)

\* json.Unmarshal into a struct: err == nil for an object and for null
IsWrapper(t) == t[1] = "json" /\ t[2][1] \in {"obj", "null"}
StructuredOutput(t) == IF t[2][1] = "obj" THEN t[2][2] ELSE Absent
Result(t) == IF t[2][1] = "obj" THEN t[2][3] ELSE Absent

\* json.Unmarshal(raw, &s) for a string s: err == nil for a string and for
\* null, which leaves s empty
DecodesAsString(v) == v[1] \in {"str", "null"}
DecodedString(v) == IF v[1] = "str" THEN v[2] ELSE EmptyText

\* raw[0] == '{' / raw[0] == '{' || raw[0] == '['
StartsObject(v) == v[1] = "obj"
StartsObjectOrArray(v) == v[1] \in {"obj", "arr"}

Returned(t) == [err |-> FALSE, text |-> t]
NoResultErr == [err |-> TRUE, text |-> EmptyText]

\* the envelope is unwrapped from the bytes of stdout
unwrapBuffered(stdout) ==
    LET so == StructuredOutput(stdout)
        r  == Result(stdout)
    IN  IF IsWrapper(stdout) /\ so # Absent /\ StartsObject(so)
        THEN Returned(RawString(so))
        ELSE IF IsWrapper(stdout) /\ r # Absent /\ DecodesAsString(r)
                /\ DecodedString(r) # EmptyText
        THEN Returned(DecodedString(r))
        ELSE IF IsWrapper(stdout) /\ r # Absent /\ StartsObjectOrArray(r)
        THEN Returned(RawString(r))
        ELSE Returned(stdout)

\* the "result" case of the scanner's loop, for the line of the result event:
\* what resultText holds after it (a line that is not an event is skipped)
resultText(line) ==
    LET so == StructuredOutput(line)
        r  == Result(line)
    IN  IF ~(line[1] = "json" /\ line[2][1] = "obj") THEN EmptyText
        ELSE IF so # Absent /\ StartsObject(so) THEN RawString(so)
        ELSE IF r # Absent
        THEN (IF DecodesAsString(r) THEN DecodedString(r) ELSE RawString(r))
        ELSE EmptyText

\* after the process has ended: no result is an error, and what was taken
\* from the event is unwrapped once more
unwrapStreaming(line) ==
    LET text == resultText(line)
        r    == Result(text)
    IN  IF text = EmptyText THEN NoResultErr
        ELSE IF IsWrapper(text) /\ r # Absent /\ DecodesAsString(r)
                /\ DecodedString(r) # EmptyText
        THEN Returned(DecodedString(r))
        ELSE IF IsWrapper(text) /\ r # Absent /\ StartsObjectOrArray(r)
        THEN Returned(RawString(r))
        ELSE Returned(text)

\* what a field of the envelope may hold: nothing, null, a number, an array,
\* a string (empty, plain, or the encoding of an object), the object of the
\* suggestion the backend is asked for, an object with a result field
FieldValues ==
    LET suggestion == Obj(Absent, Absent)
        nested == Obj(Absent, Str(PlainText))
    IN  {Absent, Atom("null"), Atom("num"), Atom("arr"), Str(EmptyText),
         Str(PlainText), suggestion, Str(Json(suggestion)), nested,
         Str(Json(nested))}

\* what the process may write: an envelope (the result event, when streaming),
\* or something else
Outputs ==
    {Json(Obj(so, r)) : so \in FieldValues, r \in FieldValues}
        \cup {EmptyText, PlainText, Json(Atom("arr")), Json(Atom("null"))}

InitCLI ==
    /\ UIInit
    /\ ~batch
    /\ budget = 0
    /\ typed = {}
    /\ Untimed
    /\ sched = Off
    /\ view = Off
    /\ wd = Off /\ req = Off
    /\ \E o \in Outputs : cli = [on |-> TRUE, run |-> "started", stdout |-> o, out |-> NoResultErr]

\* cmd.Run() has returned without error: the output is unwrapped
runBufferedCLI ==
    /\ cli.run = "started"
    /\ cli' = [cli EXCEPT !.run = "buffered", !.out = unwrapBuffered(cli.stdout)]
    /\ UNCHANGED <<uiVars, timedVars, sched, view, wd, req>>

\* the scanner has reached the end of the output and cmd.Wait() has returned
\* without error
runStreamingCLI ==
    /\ cli.run = "started"
    /\ cli' = [cli EXCEPT !.run = "streaming", !.out = unwrapStreaming(cli.stdout)]
    /\ UNCHANGED <<uiVars, timedVars, sched, view, wd, req>>

NextCLI == runBufferedCLI \/ runStreamingCLI

SpecCLI == InitCLI /\ [][NextCLI]_vars

\* C27: on both paths the invoker returns the structured-output field when it
\* holds an object; otherwise the result field's string when it decodes as a
\* non-empty string; otherwise the result field as it stands when it is an
\* object or an array; and the entire output when the envelope has neither
\* field or the output is no envelope
C27_UnwrapOrder ==
    (cli.on /\ cli.run \in {"buffered", "streaming"}) =>
        LET so == StructuredOutput(cli.stdout)
            r  == Result(cli.stdout)
            env == IsWrapper(cli.stdout)
            structured == env /\ StartsObject(so)
            asString == env /\ r[1] = "str" /\ r[2] # EmptyText
            asRaw == env /\ StartsObjectOrArray(r)
        IN  /\ structured => cli.out = Returned(Json(so))
            /\ (~structured /\ asString) => cli.out = Returned(r[2])
            /\ (~structured /\ ~asString /\ asRaw) => cli.out = Returned(Json(r))
            /\ (~env \/ (so = Absent /\ r = Absent)) => cli.out = Returned(cli.stdout)

\* the same order on the buffered path alone
C27_BufferedOrder == (cli.on /\ cli.run = "buffered") => C27_UnwrapOrder

----------------------------------------------------------------------------
(* The scheduler: Scheduler.Run and Scheduler.retryFailed over the local   *)
(* store.  A prompt is followed by what its review loop leaves in the      *)
(* store: the rows of one submission.                                      *)

MaxRows == 2         \* rows the store holds
MaxSchedTicks == 3   \* rounds of the scheduler's loop that are followed

\* a row a previous run has left, and the entry it has in the service
OldRow(i, status) ==
    StoreEntry(A1, IF status = "logged" THEN <<i>> ELSE <<>>, 0, 40, status)

OldEntry(i) ==
    [id |-> <<i>>, start |-> 0, end |-> 40, projectID |-> A1.projectID,
     description |-> A1.description, sub |-> 0, item |-> i]

RECURSIVE EntriesOf(_, _)
EntriesOf(ss, i) ==
    IF i > Len(ss) THEN <<>>
    ELSE (IF ss[i] = "logged" THEN <<OldEntry(i)>> ELSE <<>>) \o EntriesOf(ss, i + 1)

\* GetFailedEntries: the rows with status failed, oldest first
GetFailedEntries == {i \in DOMAIN db : db[i].status = "failed"}

\* the identifier the service gives the next entry it creates
CreatedID == <<MaxRows + Len(ext) + 1>>

\* the request retryFailed builds from a row
RetryEntry(i, id) ==
    [id |-> id, start |-> db[i].startTime, end |-> db[i].endTime,
     projectID |-> db[i].projectID, description |-> db[i].description,
     sub |-> 0, item |-> i]

InitSched ==
    /\ batch = FALSE
    /\ state = "input"
    /\ loop = "running"
    /\ result = NilResult
    /\ errMsg = <<>>
    /\ startTime = 0
    /\ endTime = 60
    /\ input = newInputModel(TimeInfo(startTime, endTime))
    /\ suggestions = [ref |-> 0, clarification |-> <<>>, cursor |-> 0]
    /\ edit = NoEdit
    /\ heap = <<>>
    /\ calls = <<>>
    /\ thinkCh = 0
    /\ thinkingText = <<>>
    /\ ticks = 0
    /\ subs = <<>>
    /\ nCommits = 0
    /\ ctrlC = FALSE
    /\ discarded = {}
    /\ budget = 0
    /\ typed = {}
    /\ Untimed
    /\ cli = Off
    /\ view = Off
    /\ wd = Off /\ req = Off
    /\ \E n \in 0..MaxRows : \E ss \in [1..n -> {"failed", "logged"}] :
          /\ db = [i \in 1..n |-> OldRow(i, ss[i])]
          /\ ext = EntriesOf(ss, 1)
    /\ sched = [on |-> TRUE, pc |-> "starting", ticks |-> 0, resent |-> [i \in 1..MaxRows |-> 0]]

SchedFrame ==
    UNCHANGED <<batch, state, loop, result, errMsg, input, suggestions, edit,
                heap, calls, thinkCh, thinkingText, ticks, subs, startTime,
                endTime, nCommits, ctrlC, discarded, budget, typed, timedVars,
                cli, view, wd, req>>

\* Scheduler.retryFailed: every failed row is sent again; it becomes logged
\* with the identifier returned when the call succeeds (the rows in oks) and
\* stays failed otherwise
retryFailed ==
    \E oks \in SUBSET GetFailedEntries :
        /\ db' = [i \in DOMAIN db |->
                    IF i \in oks
                    THEN [db[i] EXCEPT !.status = "logged",
                            !.clockifyID =
                                <<MaxRows + Len(ext) + 1
                                    + Cardinality({j \in oks : j < i})>>]
                    ELSE db[i]]
        /\ ext' = ext \o
                  [k \in 1..Cardinality(oks) |->
                      LET i == CHOOSE i \in oks : Cardinality({j \in oks : j < i}) = k - 1
                      IN  RetryEntry(i, <<MaxRows + Len(ext) + k>>)]

\* history: the rows retryFailed has sent once more
Resent(n) == [i \in 1..MaxRows |-> IF i \in GetFailedEntries THEN n[i] + 1 ELSE n[i]]

\* Run up to its loop: the failed rows of previous runs are retried once
RunStart ==
    /\ sched.pc = "starting"
    /\ retryFailed
    /\ sched' = [sched EXCEPT !.pc = "waiting", !.resent = Resent(@)]
    /\ SchedFrame

\* one round of Run's loop outside the working hours: nothing is done
RunTickIdle ==
    /\ sched.pc = "waiting"
    /\ sched.ticks < MaxSchedTicks
    /\ sched' = [sched EXCEPT !.ticks = @ + 1]
    /\ UNCHANGED <<db, ext>>
    /\ SchedFrame

\* one round of Run's loop in the working hours: prompt runs a review loop,
\* which may store one row, logged or failed
RunTickPrompt ==
    /\ sched.pc = "waiting"
    /\ sched.ticks < MaxSchedTicks
    /\ sched' = [sched EXCEPT !.ticks = @ + 1]
    /\ \/ UNCHANGED <<db, ext>>
       \/ /\ Len(db) < MaxRows
          /\ \E ok \in BOOLEAN :
               LET id == IF ok THEN CreatedID ELSE <<>>
               IN  /\ db' = Append(db, StoreEntry(A1, id, 0, 40,
                                       IF ok THEN "logged" ELSE "failed"))
                   /\ ext' = IF ok
                             THEN Append(ext, [OldEntry(Len(db) + 1) EXCEPT !.id = id])
                             ELSE ext
    /\ SchedFrame

\* ctx.Done(): Run returns
RunStop ==
    /\ sched.pc = "waiting"
    /\ sched' = [sched EXCEPT !.pc = "stopped"]
    /\ UNCHANGED <<db, ext>>
    /\ SchedFrame

NextSched == RunStart \/ RunTickIdle \/ RunTickPrompt \/ RunStop

SpecSched == InitSched /\ [][NextSched]_vars

SchedTicked == sched.pc = "waiting" /\ sched'.ticks = sched.ticks + 1

\* C28: at every tick of the running scheduler each row that is failed is sent
\* again, and it is logged with an external identifier or still failed afterwards
C28_RetryOnEveryTick ==
    [][SchedTicked =>
         \A i \in DOMAIN db :
            db[i].status = "failed" =>
                /\ sched'.resent[i] = sched.resent[i] + 1
                /\ \/ db'[i].status = "failed"
                   \/ db'[i].status = "logged" /\ db'[i].clockifyID # <<>>]_vars

\* rows are sent again only before the loop starts
C28_RetryAtStartOnly ==
    [][sched'.resent # sched.resent => sched.pc = "starting"]_vars

----------------------------------------------------------------------------
(* The batch listing: batchSuggestionsModel.View                           *)

MaxAllocs == 3     \* allocations in the suggestion that is listed

\* the loop that builds groups and groupMap, from allocation i (0-based) on
RECURSIVE GroupByDate(_, _, _)
GroupByDate(allocs, i, groups) ==
    IF i >= Len(allocs) THEN groups
    ELSE LET a == allocs[i + 1]
             known == {g \in DOMAIN groups : groups[g].date = a.date}
         IN  IF known = {}
             THEN GroupByDate(allocs, i + 1,
                     Append(groups, [date |-> a.date, allocations |-> <<i>>,
                                     totalMin |-> a.minutes]))
             ELSE LET idx == CHOOSE g \in known : TRUE
                  IN  GroupByDate(allocs, i + 1,
                         [groups EXCEPT ![idx].allocations = Append(@, i),
                                        ![idx].totalMin = @ + a.minutes])

\* a variant that marks the row of the allocation the cursor indexes
ViewRowsByAlloc(groups, g, globalIdx, cursor) ==
    LET RECURSIVE Rows(_, _)
        Rows(h, n) ==
            IF h > Len(groups) THEN <<>>
            ELSE [k \in 1..Len(groups[h].allocations) |->
                    [date |-> groups[h].date,
                     alloc |-> groups[h].allocations[k],
                     selected |-> groups[h].allocations[k] = cursor]]
                 \o Rows(h + 1, n + Len(groups[h].allocations))
    IN  Rows(g, globalIdx)

\* the lines written for the groups from g on: a row is marked when its
\* position (globalIdx) is the cursor
ViewRows(groups, g, globalIdx, cursor) ==
    LET RECURSIVE Rows(_, _)
        Rows(h, n) ==
            IF h > Len(groups) THEN <<>>
            ELSE [k \in 1..Len(groups[h].allocations) |->
                    [date |-> groups[h].date,
                     alloc |-> groups[h].allocations[k],
                     selected |-> n + k - 1 = cursor]]
                 \o Rows(h + 1, n + Len(groups[h].allocations))
    IN  Rows(g, globalIdx)

\* batchSuggestionsModel.View: the clarification alone, or the headers and rows
View ==
    IF suggestions.clarification # <<>>
    THEN [on |-> TRUE, listing |-> FALSE, of |-> SuggAllocs,
          cursor |-> suggestions.cursor, headers |-> <<>>, rows |-> <<>>]
    ELSE LET groups == GroupByDate(SuggAllocs, 0, <<>>)
         IN  [on |-> TRUE, listing |-> TRUE, of |-> SuggAllocs,
              cursor |-> suggestions.cursor,
              headers |-> [g \in DOMAIN groups |->
                             [date |-> groups[g].date, totalMin |-> groups[g].totalMin]],
              rows |-> ViewRows(groups, 1, 0, suggestions.cursor)]

\* the allocations a batch suggestion may hold
ListedSeqs ==
    LET allocs == {[B1 EXCEPT !.date = d, !.minutes = m] :
                      d \in ValidDates, m \in {30, 60}}
    IN  UNION {[1..n -> allocs] : n \in 0..MaxAllocs}

\* the state after handleAIResponse has stored a batch suggestion
InitView ==
    /\ batch = TRUE
    /\ state = "suggestion"
    /\ loop = "running"
    /\ result = NilResult
    /\ errMsg = <<>>
    /\ startTime = 0
    /\ endTime = 60
    /\ input = [newInputModel(TimeInfo(startTime, endTime)) EXCEPT !.text = <<"5">>]
    /\ \E allocs \in ListedSeqs : \E clar \in {<<>>, <<"q">>} :
          /\ heap = <<allocs>>
          /\ calls = << [NewCall(0) EXCEPT !.phase = "handled", !.ref = 1,
                                           !.clarification = clar] >>
          /\ suggestions = [ref |-> 1, clarification |-> clar, cursor |-> 0]
    /\ edit = NoEdit
    /\ thinkCh = 0
    /\ thinkingText = <<>>
    /\ ticks = 0
    /\ subs = <<>>
    /\ db = <<>>
    /\ ext = <<>>
    /\ nCommits = 0
    /\ ctrlC = FALSE
    /\ discarded = {}
    /\ budget = Len(calls)
    /\ typed = {}
    /\ Untimed
    /\ cli = Off
    /\ sched = Off
    /\ view = Off
    /\ wd = Off /\ req = Off

\* the program renders the model after an Update
Render ==
    /\ Handling
    /\ state = "suggestion"
    /\ view' = View
    /\ UNCHANGED <<uiVars, timedVars, cli, sched, wd, req>>

NextView ==
    \/ \E k \in {"up", "down"} : KeyMsg(k)
    \/ Render

SpecView == InitView /\ [][NextView]_vars

RECURSIVE SumMinutes(_, _)
SumMinutes(allocs, idxs) ==
    IF idxs = {} THEN 0
    ELSE LET i == CHOOSE i \in idxs : TRUE
         IN  allocs[i + 1].minutes + SumMinutes(allocs, idxs \ {i})

\* the allocations (0-based) of a date, and the first of them
OnDate(allocs, d) == {i \in 0..(Len(allocs) - 1) : allocs[i + 1].date = d}
FirstOn(allocs, d) == CHOOSE i \in OnDate(allocs, d) : \A j \in OnDate(allocs, d) : i <= j

\* C29: in the listing the headers are the dates in the order of their first
\* allocation, the rows are the headers' allocations group by group (each
\* allocation in one row), a header's total is the sum of its allocations'
\* minutes, and for a non-empty list exactly one row is marked: the row whose
\* position is the cursor
C29_GroupedListing ==
    (view.on /\ view.listing) =>
        LET allocs == view.of
            hs == view.headers
            rows == view.rows
        IN  /\ {hs[g].date : g \in DOMAIN hs} = {allocs[i].date : i \in DOMAIN allocs}
            /\ \A g, h \in DOMAIN hs :
                  g < h => FirstOn(allocs, hs[g].date) < FirstOn(allocs, hs[h].date)
            /\ Len(rows) = Len(allocs)
            /\ \A i \in 0..(Len(allocs) - 1) :
                  Cardinality({p \in DOMAIN rows : rows[p].alloc = i}) = 1
            /\ \A p \in DOMAIN rows : rows[p].date = allocs[rows[p].alloc + 1].date
            /\ \A p, q \in DOMAIN rows :
                  p < q =>
                     \/ FirstOn(allocs, rows[p].date) < FirstOn(allocs, rows[q].date)
                     \/ rows[p].date = rows[q].date /\ rows[p].alloc < rows[q].alloc
            /\ \A g \in DOMAIN hs :
                  hs[g].totalMin = SumMinutes(allocs, OnDate(allocs, hs[g].date))
            /\ allocs # <<>> =>
                  {p \in DOMAIN rows : rows[p].selected} = {view.cursor + 1}

\* three allocations on two dates that alternate, the cursor on the second row:
\* the row marked shows the third allocation
C29_Witness ==
    /\ view.on /\ view.listing
    /\ Len(view.of) = 3
    /\ view.of[1].date = view.of[3].date
    /\ view.of[1].date # view.of[2].date
    /\ view.cursor = 1
    /\ view.rows[2].selected
    /\ view.rows[2].alloc = 2

----------------------------------------------------------------------------
(* The editor's navigating mode (specification SpecEdit)                   *)

Navigating == state = "edit" /\ ~edit.editing

\* C30: in navigating mode up and down keep the cursor within the list (at 0
\* when the list is empty), tab moves the field selector to the next of the 3
\* (single) or 5 (batch) fields and from the last to Project, and enter
\* switches to editing with the buffer seeded from the selected field's value,
\* for Project with an empty buffer and the full project list as the matches
C30_NavigatingKeys ==
    [][Navigating =>
        LET len == Len(Allocations(edit.ref))
            last == IF batch THEN 4 ELSE 2
        IN  /\ (KeyMsg("up") \/ KeyMsg("down")) =>
                  /\ Navigating'
                  /\ 0 <= edit'.cursor
                  /\ edit'.cursor <= IF len > 0 THEN len - 1 ELSE 0
                  /\ edit'.field = edit.field
            /\ KeyMsg("tab") =>
                  /\ Navigating'
                  /\ edit'.cursor = edit.cursor
                  /\ edit'.field = IF edit.field = last THEN FProject
                                   ELSE edit.field + 1
            /\ KeyMsg("enter") =>
                  /\ loop' = "running"
                  /\ state' = "edit"
                  /\ edit'.editing
                  /\ edit'.cursor = edit.cursor /\ edit'.field = edit.field
                  /\ IF edit.field = FProject
                     THEN edit'.buf = <<>> /\ edit'.filtered = Projects
                     ELSE /\ OnAllocation
                          /\ edit'.buf = Seed(Allocations(edit.ref)[edit.cursor + 1],
                                              edit.field)]_vars

\* the same for an editor that has an allocation under its cursor
C30_OnAllocation ==
    [][OnAllocation => C30_NavigatingKeys!1]_vars

----------------------------------------------------------------------------
(* One call of App.startAI followed past its return: the deferred cancel,  *)
(* and the watchdog's goroutine, which polls on after the command has      *)
(* returned.  Here ctxErr is ctx.Err() after every call of cancel.         *)

\* the watchdog has returned by then at the latest
WatchHorizon == Horizon + IdleLimit + PollPeriod + MaxLate

\* a variant of cancel whose every call marks the context anew
cancelAnew(e) == IF e = "" THEN "canceled" ELSE "canceled again"

\* the context's CancelFunc: only the first call has an effect
cancel(e) == IF e = "" THEN "canceled" ELSE e

InitWatch ==
    /\ batch = FALSE
    /\ state = "loading"
    /\ loop = "running"
    /\ result = NilResult
    /\ errMsg = <<>>
    /\ startTime = 0
    /\ endTime = 60
    /\ input = [newInputModel(TimeInfo(startTime, endTime)) EXCEPT !.text = <<"5">>]
    /\ suggestions = [ref |-> 0, clarification |-> <<>>, cursor |-> 0]
    /\ edit = NoEdit
    /\ heap = <<>>
    /\ calls = <<NewCall(1)>>
    /\ thinkCh = 1
    /\ thinkingText = <<>>
    /\ ticks = 1
    /\ subs = <<>>
    /\ db = <<>>
    /\ ext = <<>>
    /\ nCommits = 0
    /\ ctrlC = FALSE
    /\ discarded = {}
    /\ budget = MaxEvents
    /\ typed = TypedInput \cup TypedField
    /\ cli = Off /\ sched = Off /\ view = Off /\ req = Off
    /\ now = 0
    /\ callState = "running"
    /\ ctxErr = ""
    /\ lastActivity = 0
    /\ lastChunk = 0
    /\ gapOver = FALSE
    /\ nextPoll \in {PollPeriod + l : l \in 0..MaxLate}
    /\ wd = [on |-> TRUE, alive |-> TRUE, cancels |-> 0, msgs |-> 0, chunks |-> 0]

WatchFrame == UNCHANGED <<uiVars, cli, sched, view, req, lastChunk, gapOver>>

\* a second passes while the call runs or the watchdog sleeps; a sleep that is
\* over acts first, and the call returns within the time it is followed for
WatchTick ==
    /\ callState = "running" \/ wd.alive
    /\ now < WatchHorizon
    /\ callState = "running" => now < Horizon
    /\ wd.alive => now < nextPoll
    /\ now' = now + 1
    /\ UNCHANGED <<callState, ctxErr, lastActivity, nextPoll, wd>>
    /\ WatchFrame

\* the OnThinking callback: resetIdle()
WatchChunk ==
    /\ callState = "running"
    /\ wd.chunks < MaxChunks
    /\ lastActivity' = now
    /\ wd' = [wd EXCEPT !.chunks = @ + 1]
    /\ UNCHANGED <<now, callState, ctxErr, nextPoll>>
    /\ WatchFrame

\* a variant of the watchdog's loop without the return after cancel()
WatchPollOn ==
    /\ wd.alive
    /\ now = nextPoll
    /\ now < WatchHorizon
    /\ \E l \in 0..MaxLate : nextPoll' = now + PollPeriod + l
    /\ IF now - lastActivity >= IdleLimit
       THEN /\ ctxErr' = cancel(ctxErr)
            /\ wd' = [wd EXCEPT !.cancels = @ + 1]
       ELSE UNCHANGED <<ctxErr, wd>>
    /\ UNCHANGED <<now, callState, lastActivity>>
    /\ WatchFrame

\* one round of the watchdog's loop when its sleep returns, whether the
\* command has returned or not: cancel() and return once the idle limit is reached
WatchPoll ==
    /\ wd.alive
    /\ now = nextPoll
    /\ IF now - lastActivity >= IdleLimit
       THEN /\ ctxErr' = cancel(ctxErr)
            /\ wd' = [wd EXCEPT !.alive = FALSE, !.cancels = @ + 1]
            /\ UNCHANGED nextPoll
       ELSE /\ \E l \in 0..MaxLate : nextPoll' = now + PollPeriod + l
            /\ UNCHANGED <<ctxErr, wd>>
    /\ UNCHANGED <<now, callState, lastActivity>>
    /\ WatchFrame

\* MatchProjects returns (with a suggestion only while the context is not
\* done), the deferred cancel runs and the command returns its aiResponseMsg
WatchReturn ==
    /\ callState = "running"
    /\ \E ok \in BOOLEAN :
         /\ ok => ctxErr = ""
         /\ callState' = IF ok THEN "ok" ELSE "err"
    /\ ctxErr' = cancel(ctxErr)
    /\ wd' = [wd EXCEPT !.cancels = @ + 1, !.msgs = @ + 1]
    /\ UNCHANGED <<now, lastActivity, nextPoll>>
    /\ WatchFrame

NextWatch == WatchTick \/ WatchChunk \/ WatchPoll \/ WatchReturn

SpecWatch == InitWatch /\ [][NextWatch]_vars

\* time passes, sleeps return and the call returns
SpecWatchFair == SpecWatch /\ WF_vars(NextWatch)

\* C31: a call has one terminal outcome and returns one message; a call of
\* cancel on a context that is already done changes nothing, and after the
\* command has returned the watchdog's cancel changes neither the outcome nor
\* the number of messages
C31_CancelIdempotent ==
    [][/\ wd'.msgs <= 1
       /\ (callState # "running") => (callState' = callState /\ wd'.msgs = wd.msgs)
       /\ (ctxErr # "" /\ wd'.cancels > wd.cancels) => ctxErr' = ctxErr]_vars

\* the call has returned a suggestion, its deferred cancel has run, and the
\* watchdog has called cancel after it
C31_Witness ==
    /\ wd.on
    /\ callState = "ok"
    /\ wd.cancels = 2
    /\ ~wd.alive
    /\ wd.msgs = 1

\* C40: once the call has completed, by result, by error or by cancellation,
\* the watchdog's goroutine eventually returns
C40_WatchdogEnds == (wd.on /\ callState # "running") ~> ~wd.alive

\* the call failed while chunks were still arriving, and the watchdog has
\* returned after it
C40_Witness ==
    /\ wd.on
    /\ callState = "err"
    /\ wd.chunks > 0
    /\ ~wd.alive
    /\ wd.cancels = 2

----------------------------------------------------------------------------
(* One request of the HTTP clients: clockify.Client.doRequest and          *)
(* msgraph.Client.fetchPage (the same loop in both)                        *)

maxRetries == 3

\* what httpClient.Do may return: a transport error, or a response with a status
Responses ==
    {[err |-> TRUE, status |-> 0]}
        \cup {[err |-> FALSE, status |-> c] : c \in {200, 404, 429, 500}}

\* a variant that also retries after a client error
RetryableOrClientError(r) == r.err \/ r.status >= 400

\* the attempt is repeated: err != nil, 429, or a status >= 500
Retryable(r) == r.err \/ r.status = 429 \/ r.status >= 500

InitHTTP ==
    /\ UIInit
    /\ ~batch
    /\ budget = 0
    /\ typed = {}
    /\ Untimed
    /\ cli = Off /\ sched = Off /\ view = Off /\ wd = Off
    /\ \E c \in {"clockify", "msgraph"} :
          req = [on |-> TRUE, client |-> c, pc |-> "sending", attempt |-> 0,
                 seen |-> <<>>, outcome |-> "none"]

HTTPFrame == UNCHANGED <<uiVars, timedVars, cli, sched, view, wd>>

\* one round of the loop: Do, then return after the last attempt, sleep
\* before the next, or leave the loop
Attempt ==
    /\ req.pc = "sending"
    /\ \E r \in Responses :
         req' = [req EXCEPT
                   !.seen = Append(@, r),
                   !.pc = IF ~Retryable(r) THEN "reading"
                          ELSE IF req.attempt = maxRetries THEN "returned"
                          ELSE "sleeping",
                   !.outcome = IF Retryable(r) /\ req.attempt = maxRetries
                               THEN "error" ELSE @]
    /\ HTTPFrame

\* time.Sleep(backoff(attempt)); continue
Backoff ==
    /\ req.pc = "sleeping"
    /\ req' = [req EXCEPT !.pc = "sending", !.attempt = @ + 1]
    /\ HTTPFrame

\* after the loop: the body is read (and parsed, in fetchPage), and a status
\* outside 2xx is an error
ReadBody ==
    /\ req.pc = "reading"
    /\ \E readOK \in BOOLEAN :
         LET st == req.seen[Len(req.seen)].status
         IN  req' = [req EXCEPT
                       !.pc = "returned",
                       !.outcome = IF readOK /\ st >= 200 /\ st < 300
                                   THEN "ok" ELSE "error"]
    /\ HTTPFrame

NextHTTP == Attempt \/ Backoff \/ ReadBody

SpecHTTP == InitHTTP /\ [][NextHTTP]_vars

\* every sleep returns and every call of Do returns
SpecHTTPFair == SpecHTTP /\ WF_vars(NextHTTP)

\* the attempts made so far, and the last response
Attempts == Len(req.seen)
LastSeen == req.seen[Attempts]
Failure(r) == r.err \/ r.status = 429 \/ r.status >= 500

----------------------------------------------------------------------------
(* Calls in flight (specification SpecShort)                               *)

\* the calls whose outcome Update has not handled
InFlight == {c \in DOMAIN calls : calls[c].phase # "handled"}

\* C33: at most one AI call is in flight, and it is the latest one: every
\* call started before it has had its outcome handled
C33_OneCallInFlight ==
    /\ Cardinality(InFlight) <= 1
    /\ \A c \in DOMAIN calls : c < Len(calls) => calls[c].phase = "handled"

\* after a retry the second call runs, the first one's outcome handled
C33_Witness ==
    /\ Len(calls) = 2
    /\ calls[1].phase = "handled"
    /\ calls[2].phase = "running"
    /\ discarded # {}

----------------------------------------------------------------------------
(* The transcript after a retry (specification SpecStreamShort)            *)

\* readThinking commands waiting on the channel App.thinkCh
PendingReads ==
    IF thinkCh = 0 THEN 0 ELSE calls[thinkCh].readers

\* C34: once a second call has been started, the transcript holds chunks of
\* that call only, and at most one read request is pending on the current
\* channel
C34_NewTranscriptOnly ==
    /\ Len(calls) >= 2 =>
          \A i \in DOMAIN thinkingText : ChunkCall(thinkingText[i]) = Len(calls)
    /\ PendingReads <= 1

----------------------------------------------------------------------------
(* What a skipped run has stored (specification SpecShort)                 *)

\* C35: when the loop has ended with a skipped result, the run has created no
\* entry in the service and inserted no row in the store
C35_SkippedStoredNothing ==
    (loop = "exited" /\ result.set /\ result.skipped) => (ext = <<>> /\ db = <<>>)

----------------------------------------------------------------------------
(* The editors' index (specification SpecEdit)                             *)

\* enter reads or writes allocations[cursor]: in navigating mode to seed the
\* buffer (the single editor's Project field does not), in editing mode to
\* apply a value that passes validation
ReadsAllocation ==
    IF edit.editing THEN EditValid(edit) ELSE (batch \/ edit.field # FProject)

\* C36: every access allocations[cursor] of the editors happens with
\* 0 <= cursor < len(allocations), whatever list the editor was opened with
C36_IndexInRange ==
    [][(state = "edit" /\ ReadsAllocation /\ KeyMsg("enter")) =>
          (0 <= edit.cursor /\ edit.cursor < Len(Allocations(edit.ref))
             /\ loop' = "running")]_vars

----------------------------------------------------------------------------
(* Project commits (specification SpecEdit)                                *)

\* enter on the Project field that is being edited
ProjectCommit ==
    state = "edit" /\ edit.editing /\ edit.field = FProject /\ KeyMsg("enter")

\* C37: after a project commit of the single-interval editor that changes the
\* allocation, its project id, project name and client name are those of one
\* project of the list
C37_ProjectFieldsAgree ==
    [][(~batch /\ ProjectCommit /\ heap' # heap) =>
          LET a == heap'[edit.ref][edit.cursor + 1]
          IN  \E i \in DOMAIN Projects :
                 /\ a.projectID = Projects[i].id
                 /\ a.projectName = Projects[i].name
                 /\ a.clientName = Projects[i].clientName]_vars

\* the record fields a commit of field f may write
FieldsOf(f) ==
    CASE f = FProject     -> {"projectID", "projectName"}
      [] f = FMinutes     -> {"minutes"}
      [] f = FDescription -> {"description"}
      [] f = FStartTime   -> {"startTime"}
      [] OTHER            -> {"endTime"}

\* C38: every step taken while a field is being edited leaves the number of
\* lists and the length of each unchanged, changes no allocation but the one
\* at the editor cursor and of that one only the selected field (project id
\* and name for Project), and keeps the cursor and the field selector
C38_CommitFrame ==
    [][(state = "edit" /\ edit.editing) =>
          /\ DOMAIN heap' = DOMAIN heap
          /\ \A r \in DOMAIN heap :
                /\ Len(heap'[r]) = Len(heap[r])
                /\ \A i \in DOMAIN heap[r] :
                      IF r = edit.ref /\ i = edit.cursor + 1
                      THEN \A k \in DOMAIN heap[r][i] :
                              k \notin FieldsOf(edit.field) =>
                                 heap'[r][i][k] = heap[r][i][k]
                      ELSE heap'[r][i] = heap[r][i]
          /\ state' = "edit" =>
                (edit'.cursor = edit.cursor /\ edit'.field = edit.field)]_vars

\* a commit wrote the description of the second allocation and nothing else
C38_Witness ==
    /\ state = "edit" /\ ~edit.editing /\ nCommits = 1
    /\ edit.cursor = 1 /\ edit.field = FDescription
    /\ Len(heap[edit.ref]) = 2
    /\ heap[edit.ref][1] \in {A1, B1}
    /\ \E b \in {A2, B2} :
          /\ heap[edit.ref][2].description # b.description
          /\ [heap[edit.ref][2] EXCEPT !.description = b.description] = b

----------------------------------------------------------------------------
(* The thinking channel (specification SpecStreamShort)                    *)

\* a readThinking command of call c receives the close of its channel
ReadsClose(c) ==
    /\ calls[c].closed /\ calls[c].ch = <<>>
    /\ calls'[c].readers < calls[c].readers

\* C39: the channel never holds more than its capacity, nothing is sent on a
\* closed channel, and the read that receives the close ends the reader
\* chain: no other read is pending on that channel, so one done message
C39_ChannelProtocol ==
    [][\A c \in DOMAIN calls :
          /\ Len(calls'[c].ch) <= ChanCap
          /\ calls[c].closed => Len(calls'[c].ch) <= Len(calls[c].ch)
          /\ ReadsClose(c) => calls'[c].readers = 0]_vars

\* the producer's part alone: the capacity is kept and no send follows the close
C39_NoSendAfterClose ==
    [][\A c \in DOMAIN calls :
          /\ Len(calls'[c].ch) <= ChanCap
          /\ calls[c].closed => Len(calls'[c].ch) <= Len(calls[c].ch)]_vars

====
